---- MODULE Spec2Model ----
(***************************************************************************)
(* Model of the MCP container manager                                      *)
(* (backend/containers/manager.py, class MCPContainerManager).             *)
(*                                                                         *)
(* The manager runs on one asyncio event loop.  A coroutine runs without   *)
(* interruption until it awaits something that really suspends.  The       *)
(* Docker SDK calls are synchronous, so _start_container, _stop_container, *)
(* _enforce_lru_limit and stop_customer_containers never suspend; the only *)
(* suspension points of start_customer_containers are the two              *)
(* asyncio.gather calls (start tasks, health tasks) and, inside            *)
(* _wait_for_healthy, the HTTP probe and the sleep.  Each action below is  *)
(* one such uninterrupted stretch of code.                                 *)
(***************************************************************************)
EXTENDS Naturals, Integers, Sequences, FiniteSets, Bags, TLC

\* ------------------------------------------------------------------ bounds

\* Number of start_customer_containers calls a behaviour may take past the
\* fast path (each may create containers, whose ids are fresh).
MaxStarts == 3

\* Number of start_customer_containers calls that may be suspended at once.
MaxInFlight == 2

\* The same two bounds where each step is recorded in "last" (SpecTraced,
\* and SpecSerial for the first).
TracedMaxStarts == 2
TracedMaxInFlight == 2

\* The in-flight bound where calls follow one another (SpecSerial).
SerialMaxInFlight == 1

\* Width of the port window scanned by _allocate_port.  The program scans
\* range(100); the model scans a narrower window so that exhaustion is reached.
PortWindow == 2

\* The same width in SpecTraced, where two customers compete for a port.
TracedPortWindow == 1

\* Containers created under one name in a run of _start_container calls.
MaxCreated == 2

\* -------------------------------------------------------- program constants

\* self._max_warm after construction.
DefaultMaxWarm == 3

\* aiohttp.ClientTimeout(total=5): the request timeout of one probe, in seconds.
ProbeTimeout == 5

GrafanaBasePort == 3100
AlertmanagerBasePort == 9100
GenesysBasePort == 9200

\* ------------------------------------------------------------- enumerations

\* ContainerState
NOT_FOUND == "not_found"
STARTING == "starting"
RUNNING == "running"
HEALTHY == "healthy"
UNHEALTHY == "unhealthy"
STOPPING == "stopping"
STOPPED == "stopped"
ERROR == "error"

ContainerState ==
    {NOT_FOUND, STARTING, RUNNING, HEALTHY, UNHEALTHY, STOPPING, STOPPED, ERROR}

\* MCPType
GRAFANA == "grafana"
ALERTMANAGER == "alertmanager"
GENESYS == "genesys"

MCPType == {GRAFANA, ALERTMANAGER, GENESYS}

\* None, for error_message.
None == "none"

\* No container name (a lookup that found nothing) and no customer name.
NoName == <<>>

\* None, for container_id.  The daemon's ids are opaque and never repeat: the
\* id of the k-th container created under a name is that name followed by k.
NoId == <<>>

\* ------------------------------------------------------------------- inputs

\* Customer names are character sequences.
Customers == {<<"A">>, <<"B">>, <<"C">>}

\* mcp_servers lists given to start_customer_containers (the "type" of each
\* entry), by customer.
OneSidecar == [c \in Customers |-> {<<GRAFANA>>}]
\* Customer names that differ in letter case, in a space against a hyphen, or
\* in square brackets, and one that differs in a letter.
NameExamples ==
    {<<"A">>, <<"a">>, <<"[", "A", "]">>, <<"A", " ", "B">>, <<"a", "-", "b">>,
     <<"B">>}

SimilarNames == [c \in {<<"A">>, <<"a">>, <<"B">>} |-> {<<GRAFANA>>}]
GrafanaOnly == [c \in {<<"A">>, <<"B">>} |-> {<<GRAFANA>>}]
PairSidecars == [c \in Customers |-> {<<GRAFANA, ALERTMANAGER>>}]
MixedSidecars ==
    [c \in {<<"A">>, <<"B">>} |->
        IF c = <<"A">> THEN {<<GRAFANA>>, <<GRAFANA, ALERTMANAGER>>}
        ELSE {<<ALERTMANAGER>>}]

\* max_warm values given to configure.
MaxWarmValues == {1, 2}

\* HTTP statuses a health probe may see; 0 stands for a transport error.
ProbeResponses == {0, 200, 204, 405, 500}

\* health_timeout and health_interval values given to configure, in seconds.
HealthTimeouts == {3, 5}
HealthIntervals == {1, 2}

\* ------------------------------------------------------------ pure helpers

\* str.lower() on one character.
Lower(ch) ==
    CASE ch = "A" -> "a"
      [] ch = "B" -> "b"
      [] ch = "C" -> "c"
      [] OTHER -> ch

\* customer_name.lower().replace(" ", "-").replace("[", "").replace("]", "")
RECURSIVE SafeName(_)
SafeName(s) ==
    IF s = <<>> THEN <<>>
    ELSE LET ch == Lower(Head(s))
             rest == SafeName(Tail(s))
         IN  IF ch = " " THEN <<"-">> \o rest
             ELSE IF ch \in {"[", "]"} THEN rest
             ELSE <<ch>> \o rest

\* ContainerConfig.container_name: f"sm3-mcp-{mcp_type.value}-{safe_name}"
container_name(customer, mcpType) ==
    <<"sm3-mcp-", mcpType, "-">> \o SafeName(customer)

\* self._port_ranges after construction: the host start port of each type.
DefaultPortRanges ==
    [t \in MCPType |->
        CASE t = GRAFANA -> GrafanaBasePort
          [] t = ALERTMANAGER -> AlertmanagerBasePort
          [] t = GENESYS -> GenesysBasePort]

\* self._port_ranges after configure(port_ranges={"alertmanager": {"start":
\* 3100, ...}}): alertmanager shares the window of grafana.
SharedPortRanges ==
    [t \in MCPType |->
        CASE t = GRAFANA -> GrafanaBasePort
          [] t = ALERTMANAGER -> GrafanaBasePort
          [] t = GENESYS -> GenesysBasePort]

\* A dict with key k set to v (insertion order is kept apart, where it matters).
Put(f, k, v) == [x \in DOMAIN f \cup {k} |-> IF x = k THEN v ELSE f[x]]

\* A dict without key k: dict.pop(k, None).
Drop(f, k) == [x \in DOMAIN f \ {k} |-> f[x]]

EmptyDict == [x \in {} |-> None]

\* set(dict.values())
Values(f) == {f[x] : x \in DOMAIN f}

\* The smallest element of a non-empty set of numbers.
Min(S) == CHOOSE x \in S : \A y \in S : x <= y

\* -------------------------------------------------------------------- state

VARIABLES
    customers,          \* self._customers: OrderedDict, as the sequence of its items
    port_allocations,   \* self._port_allocations: container name -> host port
    max_warm,           \* self._max_warm
    containers,         \* the Docker daemon's containers:
                        \*   name -> [id, status, customer, managed]; "managed" is
                        \*   the label sm3.managed=true, "customer" sm3.customer
    created,            \* number of containers the daemon created so far, by name
    calls,              \* the bag of suspended start_customer_containers calls;
                        \*   "ran" is history: the call called containers.run
    begun,              \* number of calls that went past the fast path
    recency,            \* history: resident customers by time of last touch or insert
    run_calls,          \* history: containers.run calls per container name since
                        \*   its customer's set was last stopped or evicted
    last,               \* history: what the latest step did
    scope,              \* the inputs and bounds of the specification; its field
                        \*   port_ranges is self._port_ranges
    prober,             \* one _wait_for_healthy call followed on the clock
    orphans_removed,    \* history: what the latest cleanup_orphaned_containers
                        \*   call returned
    answer,             \* history: the latest query and what it returned
    started             \* history: one _start_container call followed by its
                        \*   Docker calls: container name, status returned, calls

vars == <<customers, port_allocations, max_warm, containers, created, calls,
          begun, recency, run_calls, last, scope, prober, orphans_removed,
          answer, started>>

\* The variables of the pool, the ledger, the daemon and the calls.
manager_vars == <<customers, port_allocations, max_warm, containers, created,
                  calls, begun, recency, run_calls, last, scope>>

\* ----------------------------------------------------------- OrderedDict

\* The absent CustomerContainers (None where one is expected).
NoCustomer == [customer_name |-> NoName, containers |-> EmptyDict]

\* list(self._customers.keys())
get_active_customers == [i \in 1..Len(customers) |-> customers[i].customer_name]

\* customer_name in self._customers
IsResident(c) == \E i \in 1..Len(customers) : customers[i].customer_name = c

\* self._customers.get(customer_name)
get_customer_status(c) ==
    IF IsResident(c)
    THEN customers[CHOOSE i \in 1..Len(customers) : customers[i].customer_name = c]
    ELSE NoCustomer

\* OrderedDict.pop(key): the items without the one of that key.
OdPop(od, c) == SelectSeq(od, LAMBDA item : item.customer_name # c)

\* OrderedDict.__setitem__: a new key goes to the end, an existing key keeps
\* its place and gets the new value.
OdSet(od, item) ==
    IF \E i \in 1..Len(od) : od[i].customer_name = item.customer_name
    THEN [i \in 1..Len(od) |->
             IF od[i].customer_name = item.customer_name THEN item ELSE od[i]]
    ELSE Append(od, item)

\* History order: the key moves to the most-recently-used end.
MoveToEnd(seq, c) == Append(SelectSeq(seq, LAMBDA x : x # c), c)

\* CustomerContainers.all_healthy
all_healthy(customer) ==
    \A t \in DOMAIN customer.containers : customer.containers[t].state = HEALTHY

\* ContainerConfig.url
url(mcpType, port) ==
    IF mcpType = GRAFANA
    THEN <<"http://localhost:", port, "/mcp">>
    ELSE <<"http://localhost:", port, "/sse">>

\* get_container_urls: mcp_type.value -> url of the statuses that are HEALTHY,
\* the empty dict for a customer that is not resident.
get_container_urls(c) ==
    IF ~IsResident(c) THEN EmptyDict
    ELSE LET set == get_customer_status(c).containers
         IN  [t \in {x \in DOMAIN set : set[x].state = HEALTHY} |->
                 url(t, set[t].port)]

\* No _start_container call is being followed.
NoStart ==
    [name |-> NoName, docker |-> <<>>,
     status |-> [customer_name |-> NoName, mcp_type |-> GRAFANA, port |-> 0,
                 state |-> STOPPED, container_id |-> NoId,
                 error_message |-> None]]

\* No query was made yet.
NoAnswer == [op |-> "none", customer |-> NoName, value |-> <<>>]

\* ------------------------------------------------------------ port ledger

\* self._port_ranges[mcp_type][0]
BasePort(mcpType) == scope.port_ranges[mcpType]

\* _allocate_port with used_ports taken from the names of the same sidecar
\* type only: the faulty variant the port-distinctness property C25 must tell
\* from the real one.
allocate_port_per_type(allocations, mcpType, name) ==
    IF name \in DOMAIN allocations
    THEN [raised |-> FALSE, port |-> allocations[name], allocations |-> allocations]
    ELSE LET base == BasePort(mcpType)
             used_ports == {allocations[n] :
                               n \in {m \in DOMAIN allocations : m[2] = mcpType}}
             free == {p \in base..(base + scope.port_window - 1) :
                         p \notin used_ports}
         IN  IF free = {}
             THEN [raised |-> TRUE, port |-> 0, allocations |-> allocations]
             ELSE [raised |-> FALSE, port |-> Min(free),
                   allocations |-> Put(allocations, name, Min(free))]

\* _allocate_port without the test "port not in used_ports": the faulty
\* variant the ledger property C6 must tell from the real one.
allocate_port_unchecked(allocations, mcpType, name) ==
    IF name \in DOMAIN allocations
    THEN [raised |-> FALSE, port |-> allocations[name], allocations |-> allocations]
    ELSE [raised |-> FALSE, port |-> BasePort(mcpType),
          allocations |-> Put(allocations, name, BasePort(mcpType))]

\* _allocate_port scanning the window from its upper end: the faulty variant
\* the first-free property C23 must tell from the real one.
allocate_port_highest(allocations, mcpType, name) ==
    IF name \in DOMAIN allocations
    THEN [raised |-> FALSE, port |-> allocations[name], allocations |-> allocations]
    ELSE LET base == BasePort(mcpType)
             used_ports == Values(allocations)
             free == {p \in base..(base + scope.port_window - 1) :
                         p \notin used_ports}
             highest == CHOOSE p \in free : \A q \in free : q <= p
         IN  IF free = {}
             THEN [raised |-> TRUE, port |-> 0, allocations |-> allocations]
             ELSE [raised |-> FALSE, port |-> highest,
                   allocations |-> Put(allocations, name, highest)]

\* _allocate_port without lines 240-241: a name that holds a port is given the
\* next free one again.  The faulty variant the idempotence property C22 must
\* tell from the real one.
allocate_port_rescan(allocations, mcpType, name) ==
    LET base == BasePort(mcpType)
        used_ports == Values(allocations)
        free == {p \in base..(base + scope.port_window - 1) : p \notin used_ports}
    IN  IF free = {}
        THEN [raised |-> TRUE, port |-> 0, allocations |-> allocations]
        ELSE [raised |-> FALSE, port |-> Min(free),
              allocations |-> Put(allocations, name, Min(free))]

\* _allocate_port: [raised, port, allocations]
allocate_port(allocations, mcpType, name) ==
    IF name \in DOMAIN allocations
    THEN [raised |-> FALSE, port |-> allocations[name], allocations |-> allocations]
    ELSE LET base == BasePort(mcpType)
             used_ports == Values(allocations)
             free == {p \in base..(base + scope.port_window - 1) :
                         p \notin used_ports}
         IN  IF free = {}
             THEN [raised |-> TRUE, port |-> 0, allocations |-> allocations]
             ELSE [raised |-> FALSE, port |-> Min(free),
                   allocations |-> Put(allocations, name, Min(free))]

\* _release_port that leaves the entry in place: the faulty variant the
\* release property C24 must tell from the real one.
release_port_kept(allocations, name) == allocations

\* _release_port
release_port(allocations, name) == Drop(allocations, name)

\* _build_container_config for each entry of mcp_servers in turn (lines 492-501):
\* [raised, allocations, configs].  A raise leaves the loop at once; the ports
\* allocated by earlier entries stay allocated.
RECURSIVE build_configs(_, _, _, _)
build_configs(customer, req, allocations, acc) ==
    IF req = <<>>
    THEN [raised |-> FALSE, allocations |-> allocations, configs |-> acc]
    ELSE LET mcpType == Head(req)
             a == allocate_port(allocations, mcpType, container_name(customer, mcpType))
         IN  IF a.raised
             THEN [raised |-> TRUE, allocations |-> a.allocations, configs |-> acc]
             ELSE build_configs(customer, Tail(req), a.allocations,
                      Append(acc, [customer_name |-> customer,
                                   mcp_type |-> mcpType,
                                   port |-> a.port]))

\* ---------------------------------------------------------- Docker daemon

\* Outcomes of the Docker calls made by _start_container.
\*   ok          every call succeeds
\*   pull_failed _ensure_network or images.pull raises
\*   run_failed  containers.run creates the container and fails to start it
StartOutcomes == {"ok", "pull_failed", "run_failed"}

\* Outcomes of the Docker calls made by _stop_container.
\*   ok             every call succeeds
\*   api_error      containers.get or container.stop raises an APIError
StopOutcomes == {"ok", "api_error"}

\* docker.containers.get(container_id): the name of the container of that id.
NameOfId(cs, id) ==
    IF \E n \in DOMAIN cs : cs[n].id = id
    THEN CHOOSE n \in DOMAIN cs : cs[n].id = id
    ELSE NoName

\* ------------------------------------------------------ container driver

\* ContainerConfig.container_name of a status's config.
NameOf(status) == container_name(status.customer_name, status.mcp_type)

\* The id the daemon gives the next container created under a name.
FreshId(made, name) ==
    Append(name, IF name \in DOMAIN made THEN made[name] + 1 ELSE 1)

\* "made" once a container was created under the name.
Created(made, name) ==
    Put(made, name, IF name \in DOMAIN made THEN made[name] + 1 ELSE 1)

\* _start_container without the test of lines 323-328: a running container of
\* the name is removed and created again like a stopped one.  The faulty
\* variant the adoption property C32 must tell from the real one.
start_container_recreating(config, cs, made, outcome) ==
    LET name == container_name(config.customer_name, config.mcp_type)
        status == [customer_name |-> config.customer_name,
                   mcp_type |-> config.mcp_type,
                   port |-> config.port,
                   state |-> STARTING,
                   container_id |-> NoId,
                   error_message |-> None]
        removed == Drop(cs, name)
        fresh(st) == [id |-> FreshId(made, name), status |-> st,
                      customer |-> config.customer_name, managed |-> TRUE]
        lookup == IF name \in DOMAIN cs
                  THEN <<"containers.get", "remove">>
                  ELSE <<"containers.get">>
    IN  IF outcome = "pull_failed"
        THEN [status |-> [status EXCEPT !.state = ERROR, !.error_message = outcome],
              containers |-> removed, created |-> made, ran |-> FALSE,
              docker |-> lookup \o <<"ensure_network", "images.pull">>]
        ELSE IF outcome = "run_failed"
        THEN [status |-> [status EXCEPT !.state = ERROR, !.error_message = outcome],
              containers |-> Put(removed, name, fresh("created")),
              created |-> Created(made, name), ran |-> TRUE,
              docker |-> lookup \o <<"ensure_network", "images.get",
                                     "containers.run">>]
        ELSE [status |-> [status EXCEPT !.state = RUNNING,
                                        !.container_id = FreshId(made, name)],
              containers |-> Put(removed, name, fresh("running")),
              created |-> Created(made, name), ran |-> TRUE,
              docker |-> lookup \o <<"ensure_network", "images.get",
                                     "containers.run">>]

\* _start_container under a given outcome of its Docker calls:
\* [status, containers, created, ran, docker].  The status starts as STARTING
\* (line 317); "ran" tells whether containers.run was called; "docker" lists
\* the Docker calls in the order they were made (images.get stands for the
\* lookup of lines 339-343 with the image present or pulled, images.pull for
\* a pull that failed).
start_container(config, cs, made, outcome) ==
    LET name == container_name(config.customer_name, config.mcp_type)
        status == [customer_name |-> config.customer_name,
                   mcp_type |-> config.mcp_type,
                   port |-> config.port,
                   state |-> STARTING,
                   container_id |-> NoId,
                   error_message |-> None]
        removed == Drop(cs, name)
        fresh(st) == [id |-> FreshId(made, name), status |-> st,
                      customer |-> config.customer_name, managed |-> TRUE]
        lookup == IF name \in DOMAIN cs
                  THEN <<"containers.get", "remove">>
                  ELSE <<"containers.get">>
    IN  IF name \in DOMAIN cs /\ cs[name].status = "running"
        THEN [status |-> [status EXCEPT !.state = RUNNING,
                                        !.container_id = cs[name].id],
              containers |-> cs, created |-> made, ran |-> FALSE,
              docker |-> <<"containers.get">>]
        ELSE IF outcome = "pull_failed"
        THEN [status |-> [status EXCEPT !.state = ERROR, !.error_message = outcome],
              containers |-> removed, created |-> made, ran |-> FALSE,
              docker |-> lookup \o <<"ensure_network", "images.pull">>]
        ELSE IF outcome = "run_failed"
        THEN [status |-> [status EXCEPT !.state = ERROR, !.error_message = outcome],
              containers |-> Put(removed, name, fresh("created")),
              created |-> Created(made, name), ran |-> TRUE,
              docker |-> lookup \o <<"ensure_network", "images.get",
                                     "containers.run">>]
        ELSE [status |-> [status EXCEPT !.state = RUNNING,
                                        !.container_id = FreshId(made, name)],
              containers |-> Put(removed, name, fresh("running")),
              created |-> Created(made, name), ran |-> TRUE,
              docker |-> lookup \o <<"ensure_network", "images.get",
                                     "containers.run">>]

\* The start tasks of one call where the first failure ends the gather and the
\* tasks after it are not run: the faulty variant the partial-failure property
\* C9 must tell from the real one.
RECURSIVE run_start_tasks_fail_fast(_, _, _, _, _)
run_start_tasks_fail_fast(configs, outs, cs, made, acc) ==
    IF \/ Len(acc.statuses) = Len(configs)
       \/ \E i \in 1..Len(acc.statuses) : acc.statuses[i].state = ERROR
    THEN [statuses |-> acc.statuses, containers |-> cs, created |-> made,
          ran |-> acc.ran]
    ELSE LET i == Len(acc.statuses) + 1
             r == start_container(configs[i], cs, made, outs[i])
         IN  run_start_tasks_fail_fast(configs, outs, r.containers, r.created,
                 [statuses |-> Append(acc.statuses, r.status),
                  ran |-> IF r.ran
                          THEN Append(acc.ran, NameOf(r.status))
                          ELSE acc.ran])

\* The start tasks of one call, run one after the other (asyncio.gather, line
\* 504): [statuses, containers, created, ran].  outs[i] is the outcome of
\* task i; ran is the sequence of container names containers.run was called for.
RECURSIVE run_start_tasks(_, _, _, _, _)
run_start_tasks(configs, outs, cs, made, acc) ==
    IF Len(acc.statuses) = Len(configs)
    THEN [statuses |-> acc.statuses, containers |-> cs, created |-> made,
          ran |-> acc.ran]
    ELSE LET i == Len(acc.statuses) + 1
             r == start_container(configs[i], cs, made, outs[i])
         IN  run_start_tasks(configs, outs, r.containers, r.created,
                 [statuses |-> Append(acc.statuses, r.status),
                  ran |-> IF r.ran
                          THEN Append(acc.ran, NameOf(r.status))
                          ELSE acc.ran])

\* for status in statuses: customer.containers[status.config.mcp_type] = status
RECURSIVE collect_statuses(_, _)
collect_statuses(statuses, acc) ==
    IF statuses = <<>> THEN acc
    ELSE collect_statuses(Tail(statuses),
                          Put(acc, Head(statuses).mcp_type, Head(statuses)))

\* Lines 510-515 without the test of wait_for_healthy (line 510): the RUNNING
\* statuses are probed whatever the caller asked for.  The faulty variant the
\* probing property C34 must tell from the real one.
health_tasks_always(cont, wait) == {t \in DOMAIN cont : cont[t].state = RUNNING}

\* The statuses handed to _wait_for_healthy (lines 510-515).
health_tasks(cont, wait) ==
    IF wait THEN {t \in DOMAIN cont : cont[t].state = RUNNING} ELSE {}

\* The healthy class of probe responses (line 406).
IsHealthyResponse(resp) == resp \in {200, 405}

\* _stop_container without the early return of lines 423-424: a status that
\* has no container id is set to STOPPING and looked up all the same.  The
\* faulty variant the terminal-state property C12 must tell from the real one.
stop_container_unguarded(status, cs, allocations, outcome) ==
    LET found == IF status.container_id = NoId THEN NoName
                 ELSE NameOfId(cs, status.container_id)
        first == {<<status.state, STOPPING>>}
    IN  IF outcome = "api_error"
        THEN [status |-> [status EXCEPT !.state = ERROR,
                                        !.error_message = outcome],
              containers |-> cs, allocations |-> allocations,
              trans |-> first \cup {<<STOPPING, ERROR>>}]
        ELSE IF found = NoName
        THEN [status |-> [status EXCEPT !.state = NOT_FOUND],
              containers |-> cs, allocations |-> allocations,
              trans |-> first \cup {<<STOPPING, NOT_FOUND>>}]
        ELSE [status |-> [status EXCEPT !.state = STOPPED],
              containers |-> Drop(cs, found),
              allocations |-> release_port(allocations, NameOf(status)),
              trans |-> first \cup {<<STOPPING, STOPPED>>}]

\* _stop_container under a given outcome of its Docker calls:
\* [status, containers, allocations, trans]; trans is the set of state
\* changes made, in order STOPPING first.
stop_container(status, cs, allocations, outcome) ==
    IF status.container_id = NoId
    THEN [status |-> status, containers |-> cs, allocations |-> allocations,
          trans |-> {}]
    ELSE LET found == NameOfId(cs, status.container_id)
             first == {<<status.state, STOPPING>>}
         IN  IF outcome = "api_error"
             THEN [status |-> [status EXCEPT !.state = ERROR,
                                             !.error_message = outcome],
                   containers |-> cs, allocations |-> allocations,
                   trans |-> first \cup {<<STOPPING, ERROR>>}]
             ELSE IF found = NoName
             THEN [status |-> [status EXCEPT !.state = NOT_FOUND],
                   containers |-> cs, allocations |-> allocations,
                   trans |-> first \cup {<<STOPPING, NOT_FOUND>>}]
             ELSE [status |-> [status EXCEPT !.state = STOPPED],
                   containers |-> Drop(cs, found),
                   allocations |-> release_port(allocations, NameOf(status)),
                   trans |-> first \cup {<<STOPPING, STOPPED>>}]

\* The stops of one set where the first failed stop ends the loop and the
\* containers after it are left alone: the faulty variant the best-effort
\* property C17 must tell from the real one.
RECURSIVE stop_all_until_failure(_, _, _, _, _, _, _)
stop_all_until_failure(cont, todo, cs, allocations, outs, trans, stopped) ==
    IF todo = {} \/ <<STOPPING, ERROR>> \in trans
    THEN [containers |-> cs, allocations |-> allocations, trans |-> trans,
          stopped |-> stopped]
    ELSE LET t == CHOOSE x \in todo : TRUE
             out == IF NameOf(cont[t]) \in DOMAIN outs
                    THEN outs[NameOf(cont[t])] ELSE "ok"
             r == stop_container(cont[t], cs, allocations, out)
         IN  stop_all_until_failure(cont, todo \ {t}, r.containers,
                 r.allocations, outs, trans \cup r.trans,
                 stopped \cup {r.status})

\* for status in customer.containers.values(): await self._stop_container(status)
\* [containers, allocations, trans, stopped]; "todo" is the set of types left,
\* outs the outcome of each stop by container name.
RECURSIVE stop_all(_, _, _, _, _, _, _)
stop_all(cont, todo, cs, allocations, outs, trans, stopped) ==
    IF todo = {}
    THEN [containers |-> cs, allocations |-> allocations, trans |-> trans,
          stopped |-> stopped]
    ELSE LET t == CHOOSE x \in todo : TRUE
             out == IF NameOf(cont[t]) \in DOMAIN outs
                    THEN outs[NameOf(cont[t])] ELSE "ok"
             r == stop_container(cont[t], cs, allocations, out)
         IN  stop_all(cont, todo \ {t}, r.containers, r.allocations, outs,
                      trans \cup r.trans, stopped \cup {r.status})

\* _enforce_lru_limit with its comparison off by one (len > max_warm + 1): the
\* faulty variant the capacity property C1 must tell from the real one.
enforce_lru_limit_off_by_one(od, limit, cs, allocations, outs, acc) ==
    IF ~(Len(od) > limit + 1)
    THEN [customers |-> od, containers |-> cs, allocations |-> allocations,
          evicted |-> acc.evicted, trans |-> acc.trans, stopped |-> acc.stopped]
    ELSE [customers |-> Tail(od), containers |-> cs, allocations |-> allocations,
          evicted |-> Append(acc.evicted, Head(od).customer_name),
          trans |-> acc.trans, stopped |-> acc.stopped]

\* _enforce_lru_limit: [customers, containers, allocations, evicted, trans, stopped]
RECURSIVE enforce_lru_limit(_, _, _, _, _, _)
enforce_lru_limit(od, limit, cs, allocations, outs, acc) ==
    IF ~(Len(od) > limit)
    THEN [customers |-> od, containers |-> cs, allocations |-> allocations,
          evicted |-> acc.evicted, trans |-> acc.trans, stopped |-> acc.stopped]
    ELSE LET oldest == Head(od)
             r == stop_all(oldest.containers, DOMAIN oldest.containers, cs,
                           allocations, outs, acc.trans, acc.stopped)
         IN  enforce_lru_limit(Tail(od), limit, r.containers, r.allocations, outs,
                 [evicted |-> Append(acc.evicted, oldest.customer_name),
                  trans |-> r.trans, stopped |-> r.stopped])

\* The container names _stop_container will look up when these sets are stopped.
StopTargets(sets) ==
    UNION {{NameOf(sets[i].containers[t]) :
               t \in {x \in DOMAIN sets[i].containers :
                         sets[i].containers[x].container_id # NoId}} :
           i \in 1..Len(sets)}

\* ------------------------------------------------------------------ history

\* The record kept in "last": op names the stretch of code that ran, customer
\* the customer it ran for, trans the state changes it made to container
\* statuses, as pairs <<from, to>>.
Event(op, c, trans) ==
    IF scope.traced THEN [op |-> op, customer |-> c, trans |-> trans] ELSE last

\* run_calls with one more containers.run call for each name of the sequence.
RECURSIVE CountRuns(_, _)
CountRuns(counts, names) ==
    IF names = <<>> THEN counts
    ELSE LET n == Head(names)
             k == IF n \in DOMAIN counts THEN counts[n] ELSE 0
         IN  CountRuns(Put(counts, n, k + 1), Tail(names))

\* run_calls without the container names of the statuses that were stopped.
ForgetRuns(counts, stopped) ==
    [n \in DOMAIN counts \ {NameOf(st) : st \in stopped} |-> counts[n]]

\* ------------------------------------------------------------------- actions

\* No _wait_for_healthy call is being followed.
IdleProber ==
    [pc |-> "idle", state |-> RUNNING, error_message |-> None, timeout |-> 0,
     interval |-> 0, start_time |-> 0, now |-> 0, seen |-> {}]

Start ==
    /\ customers = <<>>
    /\ port_allocations = EmptyDict
    /\ max_warm = DefaultMaxWarm
    /\ containers = EmptyDict
    /\ created = EmptyDict
    /\ calls = EmptyBag
    /\ begun = 0
    /\ recency = <<>>
    /\ run_calls = EmptyDict
    /\ last = [op |-> "init", customer |-> NoName, trans |-> {}]
    /\ prober = IdleProber
    /\ orphans_removed = 0
    /\ answer = NoAnswer
    /\ started = NoStart

\* Every customer asks for one sidecar and waits for its health; calls overlap.
Init ==
    /\ Start
    /\ scope = [traced |-> FALSE, requests |-> OneSidecar, waits |-> {TRUE},
                max_starts |-> MaxStarts, max_in_flight |-> MaxInFlight,
                port_window |-> PortWindow,
                port_ranges |-> DefaultPortRanges]

\* As Init, but a call is made only once the call before it has returned, and
\* each step is recorded in "last".
InitSerial ==
    /\ Start
    /\ scope = [traced |-> TRUE, requests |-> OneSidecar, waits |-> {TRUE},
                max_starts |-> TracedMaxStarts,
                max_in_flight |-> SerialMaxInFlight,
                port_window |-> PortWindow,
                port_ranges |-> DefaultPortRanges]

\* Two customers ask for one or two sidecars and compete for the one
\* alertmanager port; each step is recorded in "last".
InitTraced ==
    /\ Start
    /\ scope = [traced |-> TRUE, requests |-> MixedSidecars, waits |-> BOOLEAN,
                max_starts |-> TracedMaxStarts,
                max_in_flight |-> TracedMaxInFlight,
                port_window |-> TracedPortWindow,
                port_ranges |-> DefaultPortRanges]

\* Every customer asks for a grafana and an alertmanager sidecar; a call is
\* made only once the call before it has returned; each step is recorded.
InitPairs ==
    /\ Start
    /\ scope = [traced |-> TRUE, requests |-> PairSidecars, waits |-> {TRUE},
                max_starts |-> TracedMaxStarts,
                max_in_flight |-> SerialMaxInFlight,
                port_window |-> PortWindow,
                port_ranges |-> DefaultPortRanges]

\* Three customers, two of whose names differ only in letter case, ask for a
\* grafana sidecar each; a call is made only once the call before it has
\* returned; each step is recorded in "last".
InitSimilar ==
    /\ Start
    /\ scope = [traced |-> TRUE, requests |-> SimilarNames, waits |-> {TRUE},
                max_starts |-> TracedMaxStarts,
                max_in_flight |-> SerialMaxInFlight,
                port_window |-> TracedPortWindow,
                port_ranges |-> DefaultPortRanges]

\* Lines 477-480 without the pop and re-insert (only update_access_time): the
\* faulty variant the fast-path property C5 must tell from the real one.
Touched_in_place(c) == customers

\* Lines 477-480: a resident customer is popped and put back at the end.
Touched(c) ==
    IF IsResident(c)
    THEN Append(OdPop(customers, c), get_customer_status(c))
    ELSE customers

TouchedRecency(c) == IF IsResident(c) THEN MoveToEnd(recency, c) ELSE recency

\* Line 483 with the residence test made after the pop of line 478, where the
\* customer is never resident: the faulty variant the reuse property C4 must
\* tell from the real one.
TakesFastPath_after_pop(c) ==
    LET popped == OdPop(customers, c)
    IN  /\ \E i \in 1..Len(popped) : popped[i].customer_name = c
        /\ all_healthy(get_customer_status(c))

\* Line 483: the call returns the resident set.
TakesFastPath(c) == IsResident(c) /\ all_healthy(get_customer_status(c))

\* The bag of calls with one call replaced by its next state.
Replace(call, next) == (calls (-) SetToBag({call})) (+) SetToBag({next})

\* start_customer_containers, lines 477-485: resident and all healthy.
\* (mcp_servers and wait_for_healthy are not read on this path.)
StartFast(c) ==
    /\ TakesFastPath(c)
    /\ customers' = Touched(c)
    /\ recency' = TouchedRecency(c)
    /\ last' = Event("start_fast", c, {})
    /\ UNCHANGED <<port_allocations, max_warm, containers, created, calls, begun,
                   run_calls, scope, prober, orphans_removed, answer, started>>

\* start_customer_containers, lines 477-501, when _allocate_port raises.
\* (wait_for_healthy is not read on this path.)
StartRaise(c, req) ==
    /\ ~TakesFastPath(c)
    /\ LET b == build_configs(c, req, port_allocations, <<>>)
       IN  /\ b.raised
           /\ port_allocations' = b.allocations
    /\ customers' = Touched(c)
    /\ recency' = TouchedRecency(c)
    /\ last' = Event("start_raise", c, {})
    /\ UNCHANGED <<max_warm, containers, created, calls, begun, run_calls,
                   scope, prober, orphans_removed, answer, started>>

\* Lines 477-504 under a manager-wide lock that a call keeps across its health
\* wait: no call begins while another one probes.  The faulty variant the
\* independence property C27 must tell from the real one.
StartBegin_exclusive(c, req, wait) ==
    /\ ~TakesFastPath(c)
    /\ \A other \in BagToSet(calls) : other.pc # "health"
    /\ BagCardinality(calls) < scope.max_in_flight
    /\ begun < scope.max_starts
    /\ LET b == build_configs(c, req, port_allocations, <<>>)
       IN  /\ ~b.raised
           /\ port_allocations' = b.allocations
           /\ calls' = calls (+) SetToBag({
                  [pc |-> "start", customer_name |-> c, wait |-> wait,
                   configs |-> b.configs, containers |-> EmptyDict,
                   ran |-> FALSE]})
    /\ begun' = begun + 1
    /\ customers' = Touched(c)
    /\ recency' = TouchedRecency(c)
    /\ last' = Event("start_begin", c, {})
    /\ UNCHANGED <<max_warm, containers, created, run_calls, scope, prober,
                   orphans_removed, answer, started>>

\* start_customer_containers, lines 477-504, up to the gather of the start tasks.
StartBegin(c, req, wait) ==
    /\ ~TakesFastPath(c)
    /\ BagCardinality(calls) < scope.max_in_flight
    /\ begun < scope.max_starts
    /\ LET b == build_configs(c, req, port_allocations, <<>>)
       IN  /\ ~b.raised
           /\ port_allocations' = b.allocations
           /\ calls' = calls (+) SetToBag({
                  [pc |-> "start", customer_name |-> c, wait |-> wait,
                   configs |-> b.configs, containers |-> EmptyDict,
                   ran |-> FALSE]})
    /\ begun' = begun + 1
    /\ customers' = Touched(c)
    /\ recency' = TouchedRecency(c)
    /\ last' = Event("start_begin", c, {})
    /\ UNCHANGED <<max_warm, containers, created, run_calls, scope, prober,
                   orphans_removed, answer, started>>

\* The start tasks (line 504) and lines 506-516 up to the gather of the
\* health tasks.
RunStartTasks(call) ==
    /\ call.pc = "start"
    /\ \E outs \in [1..Len(call.configs) -> StartOutcomes] :
         LET r == run_start_tasks(call.configs, outs, containers, created,
                                  [statuses |-> <<>>, ran |-> <<>>])
             cont == collect_statuses(r.statuses, EmptyDict)
         IN  /\ containers' = r.containers
             /\ created' = r.created
             /\ run_calls' = CountRuns(run_calls, r.ran)
             /\ calls' = Replace(call,
                    [call EXCEPT
                        !.containers = cont,
                        !.ran = r.ran # <<>>,
                        !.pc = IF health_tasks(cont, call.wait) # {}
                               THEN "health" ELSE "insert"])
             /\ last' = Event("start_tasks", call.customer_name,
                    {<<STARTING, r.statuses[i].state>> : i \in 1..Len(r.statuses)})
    /\ UNCHANGED <<customers, port_allocations, max_warm, begun, recency, scope,
                   prober, orphans_removed, answer, started>>

\* _wait_for_healthy, lines 399-413: one probe and its answer.
Probe(call, t, resp) ==
    /\ call.pc = "health"
    /\ t \in DOMAIN call.containers
    /\ call.containers[t].state = RUNNING
    /\ IF IsHealthyResponse(resp)
       THEN /\ calls' = Replace(call, [call EXCEPT !.containers[t].state = HEALTHY])
            /\ last' = Event("probe", call.customer_name, {<<RUNNING, HEALTHY>>})
       ELSE UNCHANGED <<calls, last>>
    /\ UNCHANGED <<customers, port_allocations, max_warm, containers, created,
                   begun, recency, run_calls, scope, prober, orphans_removed,
                   answer, started>>

\* The timeout of _wait_for_healthy followed by a stop of the container: the
\* faulty variant the left-running property C16 must tell from the real one.
HealthTimeout_stops(call, t) ==
    /\ call.pc = "health"
    /\ t \in DOMAIN call.containers
    /\ call.containers[t].state = RUNNING
    /\ LET r == stop_container(call.containers[t], containers, port_allocations,
                               "ok")
       IN  /\ containers' = r.containers
           /\ port_allocations' = r.allocations
    /\ calls' = Replace(call,
           [call EXCEPT !.containers[t].state = UNHEALTHY,
                        !.containers[t].error_message = "health_timeout"])
    /\ last' = Event("health_timeout", call.customer_name,
                     {<<RUNNING, UNHEALTHY>>})
    /\ UNCHANGED <<customers, max_warm, created, begun, recency, run_calls,
                   scope, prober, orphans_removed, answer, started>>

\* _wait_for_healthy, lines 415-419: the loop ran out of time.
HealthTimeout(call, t) ==
    /\ call.pc = "health"
    /\ t \in DOMAIN call.containers
    /\ call.containers[t].state = RUNNING
    /\ calls' = Replace(call,
           [call EXCEPT !.containers[t].state = UNHEALTHY,
                        !.containers[t].error_message = "health_timeout"])
    /\ last' = Event("health_timeout", call.customer_name,
                     {<<RUNNING, UNHEALTHY>>})
    /\ UNCHANGED <<customers, port_allocations, max_warm, containers, created,
                   begun, recency, run_calls, scope, prober, orphans_removed,
                   answer, started>>

\* start_customer_containers, lines 518-524: insert, enforce the limit, return.
FinishStart(call) ==
    /\ \/ call.pc = "insert"
       \/ /\ call.pc = "health"
          /\ \A t \in DOMAIN call.containers : call.containers[t].state # RUNNING
    /\ LET c == call.customer_name
           customer == [customer_name |-> c, containers |-> call.containers]
           inserted == OdSet(customers, customer)
           excess == IF Len(inserted) > max_warm
                     THEN Len(inserted) - max_warm ELSE 0
       IN  \E outs \in [StopTargets(SubSeq(inserted, 1, excess)) -> StopOutcomes] :
             LET r == enforce_lru_limit(inserted, max_warm, containers,
                          port_allocations, outs,
                          [evicted |-> <<>>, trans |-> {}, stopped |-> {}])
                 gone == {r.evicted[i] : i \in 1..Len(r.evicted)}
             IN  /\ customers' = r.customers
                 /\ containers' = r.containers
                 /\ port_allocations' = r.allocations
                 /\ recency' = SelectSeq(MoveToEnd(recency, c), LAMBDA x : x \notin gone)
                 /\ run_calls' = ForgetRuns(run_calls, r.stopped)
                 /\ last' = Event("start_return", c, r.trans)
    /\ calls' = calls (-) SetToBag({call})
    /\ UNCHANGED <<max_warm, created, begun, scope, prober, orphans_removed,
                   answer, started>>

\* stop_customer_containers without the early return of lines 528-529: for a
\* customer that is not resident the ports held under its container names
\* are released all the same.  The faulty variant the stop property C30 must
\* tell from the real one.
StopCustomer_unguarded(c) ==
    IF ~IsResident(c)
    THEN /\ port_allocations' =
                [n \in DOMAIN port_allocations
                         \ {container_name(c, t) : t \in MCPType}
                    |-> port_allocations[n]]
         /\ last' = Event("stop", c, {})
         /\ UNCHANGED <<customers, max_warm, containers, created, calls, begun,
                        recency, run_calls, scope, prober, orphans_removed,
                        answer, started>>
    ELSE LET customer == get_customer_status(c)
         IN  \E outs \in [StopTargets(<<customer>>) -> StopOutcomes] :
               LET r == stop_all(customer.containers, DOMAIN customer.containers,
                                 containers, port_allocations, outs, {}, {})
               IN  /\ customers' = OdPop(customers, c)
                   /\ containers' = r.containers
                   /\ port_allocations' = r.allocations
                   /\ recency' = SelectSeq(recency, LAMBDA x : x # c)
                   /\ run_calls' = ForgetRuns(run_calls, r.stopped)
                   /\ last' = Event("stop", c, r.trans)
                   /\ UNCHANGED <<max_warm, created, calls, begun, scope, prober,
                                  orphans_removed, answer, started>>

\* stop_customer_containers
StopCustomer(c) ==
    IF ~IsResident(c)
    THEN UNCHANGED vars
    ELSE LET customer == get_customer_status(c)
         IN  \E outs \in [StopTargets(<<customer>>) -> StopOutcomes] :
               LET r == stop_all(customer.containers, DOMAIN customer.containers,
                                 containers, port_allocations, outs, {}, {})
               IN  /\ customers' = OdPop(customers, c)
                   /\ containers' = r.containers
                   /\ port_allocations' = r.allocations
                   /\ recency' = SelectSeq(recency, LAMBDA x : x # c)
                   /\ run_calls' = ForgetRuns(run_calls, r.stopped)
                   /\ last' = Event("stop", c, r.trans)
                   /\ UNCHANGED <<max_warm, created, calls, begun, scope, prober,
                                  orphans_removed, answer, started>>

\* configure followed by a run of _enforce_lru_limit: the new limit is applied
\* to the pool at once.  The faulty variant the frame property C31 must tell
\* from the real one.
Configure_enforcing(limit) ==
    /\ max_warm' = limit
    /\ last' = IF limit = max_warm THEN last ELSE Event("configure", NoName, {})
    /\ LET excess == IF Len(customers) > limit THEN Len(customers) - limit ELSE 0
           outs == [x \in StopTargets(SubSeq(customers, 1, excess)) |-> "ok"]
           r == enforce_lru_limit(customers, limit, containers, port_allocations,
                                  outs,
                                  [evicted |-> <<>>, trans |-> {}, stopped |-> {}])
           gone == {r.evicted[i] : i \in 1..Len(r.evicted)}
       IN  /\ customers' = r.customers
           /\ containers' = r.containers
           /\ port_allocations' = r.allocations
           /\ recency' = SelectSeq(recency, LAMBDA x : x \notin gone)
           /\ run_calls' = ForgetRuns(run_calls, r.stopped)
    /\ UNCHANGED <<created, calls, begun, scope, prober, orphans_removed,
                   answer, started>>

\* configure (line 182)
Configure(limit) ==
    /\ max_warm' = limit
    /\ last' = IF limit = max_warm THEN last ELSE Event("configure", NoName, {})
    /\ UNCHANGED <<customers, port_allocations, containers, created, calls,
                   begun, recency, run_calls, scope, prober, orphans_removed,
                   answer, started>>

Next ==
    \/ \E c \in DOMAIN scope.requests : StartFast(c)
    \/ \E c \in DOMAIN scope.requests :
         \E req \in scope.requests[c] : StartRaise(c, req)
    \/ \E c \in DOMAIN scope.requests, wait \in scope.waits :
         \E req \in scope.requests[c] : StartBegin(c, req, wait)
    \/ \E call \in BagToSet(calls) : RunStartTasks(call)
    \/ \E call \in BagToSet(calls), t \in MCPType, resp \in ProbeResponses :
         Probe(call, t, resp)
    \/ \E call \in BagToSet(calls), t \in MCPType : HealthTimeout(call, t)
    \/ \E call \in BagToSet(calls) : FinishStart(call)
    \/ \E c \in DOMAIN scope.requests : StopCustomer(c)
    \/ \E limit \in MaxWarmValues : Configure(limit)

Spec == Init /\ [][Next]_vars

SpecTraced == InitTraced /\ [][Next]_vars

SpecSerial == InitSerial /\ [][Next]_vars

SpecPairs == InitPairs /\ [][Next]_vars

SpecSimilar == InitSimilar /\ [][Next]_vars

\* As InitTraced without the record in "last", after a configure that gave
\* alertmanager the start port of grafana: the sidecars of all types draw
\* from one window of two ports.
InitShared ==
    /\ Start
    /\ scope = [traced |-> FALSE, requests |-> MixedSidecars, waits |-> {TRUE},
                max_starts |-> TracedMaxStarts,
                max_in_flight |-> TracedMaxInFlight,
                port_window |-> PortWindow,
                port_ranges |-> SharedPortRanges]

SpecShared == InitShared /\ [][Next]_vars

\* -------------------------------------------------------- configure, ranges

\* configure with port_ranges given (lines 182, 188-194): the limit and the
\* start ports of the types are replaced; nothing else is read or written.
ConfigureRanges(limit, ranges) ==
    /\ max_warm' = limit
    /\ scope' = [scope EXCEPT !.port_ranges = ranges]
    /\ last' = IF limit = max_warm /\ ranges = scope.port_ranges THEN last
               ELSE Event("configure", NoName, {})
    /\ UNCHANGED <<customers, port_allocations, containers, created, calls,
                   begun, recency, run_calls, prober, orphans_removed, answer, started>>

\* As InitShared, but the manager starts with the ranges of its constructor
\* and configure may change them at any time.
InitConfigure ==
    /\ Start
    /\ scope = [traced |-> FALSE, requests |-> MixedSidecars, waits |-> {TRUE},
                max_starts |-> TracedMaxStarts,
                max_in_flight |-> TracedMaxInFlight,
                port_window |-> PortWindow,
                port_ranges |-> DefaultPortRanges]

NextConfigure ==
    \/ Next
    \/ \E limit \in MaxWarmValues, ranges \in {DefaultPortRanges, SharedPortRanges} :
         ConfigureRanges(limit, ranges)

SpecConfigure == InitConfigure /\ [][NextConfigure]_vars

\* ------------------------------------------------------ one start task

\* The configs handed to _start_container: two customers, two sidecar types,
\* each on the start port of its type.
StartConfigs ==
    {[customer_name |-> c, mcp_type |-> t, port |-> DefaultPortRanges[t]] :
        c \in {<<"A">>, <<"B">>}, t \in {GRAFANA, ALERTMANAGER}}

\* The daemon as _start_container may find it: under each name no container,
\* a running one, or one that has exited.
DaemonsFound ==
    LET names == {container_name(cfg.customer_name, cfg.mcp_type) :
                     cfg \in StartConfigs}
    IN  UNION {[present -> {"running", "exited"}] : present \in SUBSET names}

\* A manager with no customers whose _start_container is called on a daemon
\* that holds containers of earlier runs.
InitStartOne ==
    /\ \E found \in DaemonsFound :
         /\ containers = [n \in DOMAIN found |->
                [id |-> Append(n, 1), status |-> found[n],
                 customer |-> CHOOSE c \in {<<"A">>, <<"B">>} :
                                \E t \in MCPType : container_name(c, t) = n,
                 managed |-> TRUE]]
         /\ created = [n \in DOMAIN found |-> 1]
    /\ customers = <<>>
    /\ port_allocations = EmptyDict
    /\ max_warm = DefaultMaxWarm
    /\ calls = EmptyBag
    /\ begun = 0
    /\ recency = <<>>
    /\ run_calls = EmptyDict
    /\ last = [op |-> "init", customer |-> NoName, trans |-> {}]
    /\ prober = IdleProber
    /\ orphans_removed = 0
    /\ answer = NoAnswer
    /\ started = NoStart
    /\ scope = [traced |-> FALSE, requests |-> MixedSidecars, waits |-> {TRUE},
                max_starts |-> TracedMaxStarts,
                max_in_flight |-> TracedMaxInFlight,
                port_window |-> PortWindow,
                port_ranges |-> DefaultPortRanges]

\* One _start_container call (lines 315-383) under a given outcome of its
\* Docker calls.
StartOne(config, outcome) ==
    LET name == container_name(config.customer_name, config.mcp_type)
        r == start_container(config, containers, created, outcome)
    IN  /\ name \in DOMAIN created => created[name] < MaxCreated
        /\ containers' = r.containers
        /\ created' = r.created
        /\ started' = [name |-> name, docker |-> r.docker, status |-> r.status]
        /\ UNCHANGED <<customers, port_allocations, max_warm, calls, begun,
                       recency, run_calls, last, scope, prober, orphans_removed,
                       answer>>

NextStartOne ==
    \E config \in StartConfigs, outcome \in StartOutcomes :
       StartOne(config, outcome)

SpecStartOne == InitStartOne /\ [][NextStartOne]_vars

\* ------------------------------------------------------------------- queries

\* get_customer_status with an access-time update and a move to the end of
\* the OrderedDict: a query that counts as a touch.  The faulty variant the
\* frame property C29 must tell from the real one.
GetCustomerStatus_touching(c) ==
    /\ answer' = [op |-> "get_customer_status", customer |-> c,
                  value |-> get_customer_status(c)]
    /\ customers' = Touched(c)
    /\ recency' = TouchedRecency(c)
    /\ UNCHANGED <<port_allocations, max_warm, containers, created, calls, begun,
                   run_calls, last, scope, prober, orphans_removed, started>>

\* get_customer_status (lines 541-543): self._customers.get(customer_name).
GetCustomerStatus(c) ==
    /\ answer' = [op |-> "get_customer_status", customer |-> c,
                  value |-> get_customer_status(c)]
    /\ UNCHANGED <<manager_vars, prober, orphans_removed, started>>

\* get_active_customers (lines 545-547)
GetActiveCustomers ==
    /\ answer' = [op |-> "get_active_customers", customer |-> NoName,
                  value |-> get_active_customers]
    /\ UNCHANGED <<manager_vars, prober, orphans_removed, started>>

\* get_container_urls with the test "state in (RUNNING, HEALTHY)": the faulty
\* variant the HEALTHY-only property C28 must tell from the real one.
GetContainerUrls_running(c) ==
    /\ answer' = [op |-> "get_container_urls", customer |-> c,
                  value |-> IF ~IsResident(c) THEN EmptyDict
                            ELSE LET set == get_customer_status(c).containers
                                 IN  [t \in {x \in DOMAIN set :
                                               set[x].state \in {RUNNING, HEALTHY}}
                                        |-> url(t, set[t].port)]]
    /\ UNCHANGED <<manager_vars, prober, orphans_removed, started>>

\* get_container_urls (lines 549-559)
GetContainerUrls(c) ==
    /\ answer' = [op |-> "get_container_urls", customer |-> c,
                  value |-> get_container_urls(c)]
    /\ UNCHANGED <<manager_vars, prober, orphans_removed, started>>

\* Two customers ask for one or two sidecars, with or without the health
\* wait; a call is made only once the call before it has returned; each step
\* is recorded in "last"; queries are made at any time, also for a customer
\* the manager never saw.
InitQuery ==
    /\ Start
    /\ scope = [traced |-> TRUE, requests |-> MixedSidecars, waits |-> BOOLEAN,
                max_starts |-> TracedMaxStarts,
                max_in_flight |-> SerialMaxInFlight,
                port_window |-> TracedPortWindow,
                port_ranges |-> DefaultPortRanges]

\* customer_name arguments of the queries.
Queried == DOMAIN MixedSidecars \cup {<<"C">>}

NextQuery ==
    \/ Next
    \/ \E c \in Queried : GetCustomerStatus(c)
    \/ GetActiveCustomers
    \/ \E c \in Queried : GetContainerUrls(c)

SpecQuery == InitQuery /\ [][NextQuery]_vars

\* Any two different customer names of NameExamples ask for a grafana sidecar
\* each; a call is made only once the call before it has returned.
InitNames ==
    /\ Start
    /\ \E n1 \in NameExamples, n2 \in NameExamples :
         /\ n1 # n2
         /\ scope = [traced |-> FALSE,
                     requests |-> [c \in {n1, n2} |-> {<<GRAFANA>>}],
                     waits |-> {TRUE},
                     max_starts |-> TracedMaxStarts,
                     max_in_flight |-> SerialMaxInFlight,
                     port_window |-> TracedPortWindow,
                     port_ranges |-> DefaultPortRanges]

SpecNames == InitNames /\ [][Next]_vars

\* ------------------------------------------------ cleanup_orphaned_containers

\* The listing of line 567 without its label filter: the faulty variant the
\* cleanup property C18 must tell from the real one.
managed_containers_any_label(cs) == DOMAIN cs

\* containers.list(all=True, filters={"label": "sm3.managed=true"}), by name.
managed_containers(cs) == {n \in DOMAIN cs : cs[n].managed}

\* managed_ids (lines 571-576): the ids the resident sets hold.
managed_ids(od) ==
    UNION {{od[i].containers[t].container_id :
               t \in {x \in DOMAIN od[i].containers :
                         od[i].containers[x].container_id # NoId}} :
           i \in 1..Len(od)}

\* The names of the containers the loop of lines 578-581 removes if nothing fails.
orphaned(cs, od) ==
    {n \in managed_containers(cs) : cs[n].id \notin managed_ids(od)}

\* cleanup_orphaned_containers.  Either the listing raises, or the loop removes
\* the orphans in the order of the listing until one removal raises: "done"
\* are the orphans removed before that, all of them if none raises.  An
\* exception is caught and logged (lines 583-584), and "removed" is returned
\* as it stands.
CleanupOrphans(list_ok, done) ==
    /\ done \subseteq orphaned(containers, customers)
    /\ ~list_ok => done = {}
    /\ containers' = [n \in DOMAIN containers \ done |-> containers[n]]
    /\ orphans_removed' = Cardinality(done)
    /\ last' = Event(IF list_ok /\ done = orphaned(containers, customers)
                     THEN "cleanup" ELSE "cleanup_failed", NoName, {})
    /\ UNCHANGED <<customers, port_allocations, max_warm, created, calls, begun,
                   recency, run_calls, scope, prober, answer, started>>

\* The daemon as a manager may find it when it is constructed: a container
\* that is not the manager's (no label), and a labelled container a previous
\* process left behind.
ForeignName == <<"registry">>

LeftoverName == container_name(<<"C">>, GRAFANA)

DaemonAtStart ==
    [n \in {ForeignName, LeftoverName} |->
        IF n = ForeignName
        THEN [id |-> FreshId(EmptyDict, n), status |-> "running",
              customer |-> NoName, managed |-> FALSE]
        ELSE [id |-> FreshId(EmptyDict, n), status |-> "running",
              customer |-> <<"C">>, managed |-> TRUE]]

\* Two customers ask for a grafana sidecar each, with one port to share; the
\* daemon already holds containers; each step is recorded in "last".
InitCleanup ==
    /\ customers = <<>>
    /\ port_allocations = EmptyDict
    /\ max_warm = DefaultMaxWarm
    /\ containers = DaemonAtStart
    /\ created = [n \in DOMAIN DaemonAtStart |-> 1]
    /\ calls = EmptyBag
    /\ begun = 0
    /\ recency = <<>>
    /\ run_calls = EmptyDict
    /\ last = [op |-> "init", customer |-> NoName, trans |-> {}]
    /\ prober = IdleProber
    /\ orphans_removed = 0
    /\ answer = NoAnswer
    /\ started = NoStart
    /\ scope = [traced |-> TRUE, requests |-> GrafanaOnly, waits |-> {TRUE},
                max_starts |-> TracedMaxStarts,
                max_in_flight |-> TracedMaxInFlight,
                port_window |-> TracedPortWindow,
                port_ranges |-> DefaultPortRanges]

NextCleanup ==
    \/ Next
    \/ \E list_ok \in BOOLEAN, done \in SUBSET DOMAIN containers :
         CleanupOrphans(list_ok, done)

SpecCleanup == InitCleanup /\ [][NextCleanup]_vars

\* ------------------------------------------- _wait_for_healthy on the clock

\* One call of _wait_for_healthy followed step by step, with the readings of
\* time.time() it makes.  The clock is in whole seconds and moves only while
\* the coroutine is suspended: in a probe (at most ProbeTimeout) and in
\* asyncio.sleep (health_interval).  "seen" is history: the responses the
\* probes of this call observed.

\* Lines 390-395: the call begins; a status in ERROR is returned at once.
WaitBegin(state, timeout, interval) ==
    /\ prober.pc = "idle"
    /\ prober' = [prober EXCEPT
                     !.pc = IF state = ERROR THEN "done" ELSE "test",
                     !.state = state,
                     !.timeout = timeout,
                     !.interval = interval,
                     !.start_time = prober.now]
    /\ UNCHANGED <<manager_vars, orphans_removed, answer, started>>

\* Line 399, the loop condition, and lines 415-419 when it is false.
LoopTest ==
    /\ prober.pc = "test"
    /\ prober' = IF prober.now - prober.start_time < prober.timeout
                 THEN [prober EXCEPT !.pc = "probe"]
                 ELSE [prober EXCEPT !.pc = "done",
                                     !.state = UNHEALTHY,
                                     !.error_message = "health_timeout"]
    /\ UNCHANGED <<manager_vars, orphans_removed, answer, started>>

\* Lines 400-411: one probe that took d seconds and saw resp (0: the request
\* raised, a refused connection or the request timeout among the reasons).
ProbeAnswer(resp, d) ==
    /\ prober.pc = "probe"
    /\ prober' = IF IsHealthyResponse(resp)
                 THEN [prober EXCEPT !.pc = "done",
                                     !.state = HEALTHY,
                                     !.now = @ + d,
                                     !.seen = @ \cup {resp}]
                 ELSE [prober EXCEPT !.pc = "sleep",
                                     !.now = @ + d,
                                     !.seen = @ \cup {resp}]
    /\ UNCHANGED <<manager_vars, orphans_removed, answer, started>>

\* Line 413: await asyncio.sleep(self._health_interval)
Sleep ==
    /\ prober.pc = "sleep"
    /\ prober' = [prober EXCEPT !.pc = "test", !.now = @ + prober.interval]
    /\ UNCHANGED <<manager_vars, orphans_removed, answer, started>>

\* A manager with no customers, whose _wait_for_healthy is called once.
InitHealth ==
    /\ Start
    /\ scope = [traced |-> FALSE, requests |-> OneSidecar, waits |-> {TRUE},
                max_starts |-> MaxStarts, max_in_flight |-> MaxInFlight,
                port_window |-> PortWindow,
                port_ranges |-> DefaultPortRanges]

NextHealth ==
    \/ \E state \in {RUNNING, ERROR}, timeout \in HealthTimeouts,
          interval \in HealthIntervals : WaitBegin(state, timeout, interval)
    \/ LoopTest
    \/ \E resp \in ProbeResponses, d \in 0..ProbeTimeout : ProbeAnswer(resp, d)
    \/ Sleep

SpecHealth == InitHealth /\ [][NextHealth]_vars

\* =================================================================== claims

\* The operations that change the pool or the policy, by the name "last" gives
\* their final stretch of code.
MutatingOps == {"start_fast", "start_return", "stop", "configure"}

\* -------------------------------------------------------------------- C1

\* C1 as stated: after any mutating operation completes (a start on its fast
\* or full path, a stop, a configure that changes max_warm) the number of
\* resident customers is at most max_warm.  Violated: configure (line 182)
\* only stores the new limit.
C1_AsStated ==
    last.op \in MutatingOps => Len(customers) <= max_warm

\* C1 amended: when start_customer_containers returns from its full path the
\* number of resident customers is at most max_warm, and every step that does
\* not lower max_warm keeps the pool within max_warm if it was within it.
C1_CapacityAfterFullStart ==
    [][/\ last'.op = "start_return" => Len(customers') <= max_warm'
       /\ (Len(customers) <= max_warm /\ max_warm' >= max_warm)
             => Len(customers') <= max_warm']_vars

\* C1 witness: a full-path start has just returned after stopping the
\* containers of a customer it evicted, and the pool is exactly full.
C1_Witness ==
    /\ last.op = "start_return"
    /\ \E from \in ContainerState : <<from, STOPPING>> \in last.trans
    /\ Len(customers) = max_warm

\* -------------------------------------------------------------------- C2

\* The suspended call "call" returns in this step.
Returns(call) ==
    /\ BagCardinality(calls') < BagCardinality(calls)
    /\ CopiesIn(call, calls') < CopiesIn(call, calls)

\* The customers of a pool, as a set.
Residents(od) == {od[i].customer_name : i \in 1..Len(od)}

\* The k most recently touched or inserted customers of an order.
MostRecent(order, k) == {order[i] : i \in (Len(order) - k + 1)..Len(order)}

\* C2 as stated: whenever _enforce_lru_limit evicts, the customers evicted are
\* those whose last touch or insert is oldest; that is, when a full-path start
\* returns, the customers left in the pool are the most recently touched or
\* inserted ones, the customer just inserted being the most recent of all.
\* Violated: line 519 overwrites a resident customer in place, so the pool's
\* order is no longer the order of last use and the head is not the oldest.
C2_AsStated ==
    [][\A call \in BagToSet(calls) :
          Returns(call) =>
              Residents(customers') =
                  MostRecent(MoveToEnd(recency, call.customer_name),
                             Len(customers'))]_vars

\* -------------------------------------------------------------------- C3

\* C3 as stated: when a start call that called containers.run returns and its
\* customer is resident, that customer is the last of get_active_customers,
\* also when the customer was resident before and other customers were
\* inserted while the call was suspended.  Violated: OrderedDict.__setitem__
\* (line 519) keeps the place of a key that is already present.
C3_AsStated ==
    [][\A call \in BagToSet(calls) :
          (Returns(call) /\ call.ran /\ IsResident(call.customer_name)')
              => get_active_customers'[Len(customers')] = call.customer_name]_vars

\* -------------------------------------------------------------------- C4

\* The first stretches of start_customer_containers, as named in "last".
StartOps == {"start_fast", "start_raise", "start_begin"}

\* A call of start_customer_containers for customer c is made in this step.
StartCalled(c) == last'.op \in StartOps /\ last'.customer = c

\* C4 as stated: calls of start_customer_containers that follow one another
\* with no stop or eviction of the customer between them call containers.run
\* at most once for each sidecar in total (run_calls counts the calls since
\* the customer's set last left the pool; under SpecSerial no two calls
\* overlap).  Violated: when the first call's set is not all healthy the
\* second call takes the full path and runs a container that is not running.
C4_AsStated ==
    \A n \in DOMAIN run_calls : run_calls[n] <= 1

\* C4 amended: when a call for a customer has just returned a set that is
\* resident and all healthy, the next call for that customer takes the fast
\* path: it calls containers.run for no sidecar, suspends nothing and
\* returns the set that is in the pool.
C4_ReuseWhenHealthy ==
    [][\A c \in Customers :
          (/\ last.op = "start_return" /\ last.customer = c
           /\ IsResident(c) /\ all_healthy(get_customer_status(c))
           /\ StartCalled(c))
          => /\ last'.op = "start_fast"
             /\ run_calls' = run_calls
             /\ calls' = calls
             /\ get_customer_status(c)' = get_customer_status(c)]_vars

\* C4 witness: a customer's second call has returned from the fast path, the
\* first was the only call that went past it and called containers.run once.
C4_Witness ==
    \E c \in Customers :
        /\ last.op = "start_fast" /\ last.customer = c
        /\ begun = 1 /\ calls = EmptyBag
        /\ run_calls = (container_name(c, GRAFANA) :> 1)

\* -------------------------------------------------------------------- C5

\* C5: a call of start_customer_containers for a customer that is resident
\* with every sidecar HEALTHY returns at once the set that is in the pool; it
\* makes no Docker call, allocates and releases no port, changes no container
\* status, evicts nobody (also when the pool is over max_warm) and suspends
\* nothing.  The only change is that the customer becomes the last of
\* get_active_customers.  (Access timestamps are not part of the model.)
C5_FastPathFrame ==
    [][\A c \in Customers :
          (IsResident(c) /\ all_healthy(get_customer_status(c)) /\ StartCalled(c))
          => /\ last'.op = "start_fast"
             /\ get_active_customers' = MoveToEnd(get_active_customers, c)
             /\ \A d \in Customers :
                   get_customer_status(d)' = get_customer_status(d)
             /\ UNCHANGED <<containers, created, run_calls, port_allocations,
                            calls, begun, max_warm>>]_vars

\* C5 witness: a fast-path call has just returned for a customer while the
\* pool holds two customers, more than max_warm allows, and holds them still.
C5_Witness ==
    /\ last.op = "start_fast"
    /\ Len(customers) = 2
    /\ max_warm = 1
    /\ customers[2].customer_name = last.customer
    /\ all_healthy(customers[2])

\* -------------------------------------------------------------------- C6

\* C6: in every reachable state, whatever the interleaving of starts, stops
\* and evictions, no two container names hold the same host port in
\* self._port_allocations.
C6_LedgerInjective ==
    \A n1, n2 \in DOMAIN port_allocations :
        n1 # n2 => port_allocations[n1] # port_allocations[n2]

\* C6 witness: three container names went through the two-port window: C
\* holds the lowest port, which another name held and released before, while A
\* holds the next one.
C6_Witness ==
    /\ DOMAIN port_allocations =
           {container_name(<<"A">>, GRAFANA), container_name(<<"C">>, GRAFANA)}
    /\ port_allocations[container_name(<<"C">>, GRAFANA)] = GrafanaBasePort
    /\ port_allocations[container_name(<<"A">>, GRAFANA)] = GrafanaBasePort + 1
    /\ container_name(<<"B">>, GRAFANA) \in DOMAIN created

\* -------------------------------------------------------------------- C7

\* C7 as stated: when a customer leaves the pool (stop_customer_containers
\* removes it or _enforce_lru_limit evicts it), self._port_allocations holds no
\* entry for any container name of its set afterwards, whatever the state of
\* the sidecar and whatever the outcome of its stop.  Violated: only the
\* successful path of _stop_container releases the port (line 434).
C7_AsStated ==
    [][\A c \in Customers :
          (IsResident(c) /\ ~IsResident(c)')
          => \A t \in DOMAIN get_customer_status(c).containers :
                container_name(c, t) \notin DOMAIN port_allocations']_vars

\* -------------------------------------------------------------------- C8

\* C8 as stated: start_customer_containers never raises; when a sidecar's port
\* cannot be allocated because the window is exhausted the call still returns
\* a set, with the failure in that sidecar's status and the other sidecars
\* started.  Violated: the RuntimeError of _allocate_port (line 253) leaves
\* start_customer_containers through _build_container_config (line 500), which
\* is outside any try.
C8_AsStated ==
    last.op # "start_raise"

\* -------------------------------------------------------------------- C9

\* The states a sidecar of a returned set can be in: its own outcome.
Outcomes(wait) ==
    IF wait THEN {HEALTHY, UNHEALTHY, ERROR} ELSE {RUNNING, ERROR}

\* C9: when a start call returns a set in which the Docker calls failed for a
\* sidecar, that sidecar is ERROR with the message of the failure and without
\* container id; the set has a status for every sidecar asked for, each
\* sibling at its own outcome (started and, when the call waits for health,
\* probed to HEALTHY or UNHEALTHY, or ERROR by its own failure);
\* all_healthy() of the set is false; and the set is inserted in the pool: it
\* is the customer's resident set after the call, unless _enforce_lru_limit
\* evicted the customer in the same call.
C9_PartialFailureVisible ==
    [][\A call \in BagToSet(calls) :
          (/\ Returns(call)
           /\ \E t \in DOMAIN call.containers : call.containers[t].state = ERROR)
          => LET c == call.customer_name
                 set == [customer_name |-> c, containers |-> call.containers]
             IN  /\ \A t \in DOMAIN call.containers :
                       call.containers[t].state = ERROR
                           => /\ call.containers[t].error_message \in StartOutcomes
                              /\ call.containers[t].container_id = NoId
                 /\ DOMAIN call.containers =
                        {call.configs[i].mcp_type : i \in 1..Len(call.configs)}
                 /\ \A t \in DOMAIN call.containers :
                       call.containers[t].state \in Outcomes(call.wait)
                 /\ ~all_healthy(set)
                 /\ \/ get_customer_status(c)' = set
                    \/ ~IsResident(c)' /\ Len(customers') = max_warm'
                 /\ last'.op = "start_return"]_vars

\* C9 witness: a call for [grafana, alertmanager] has returned and its set is
\* resident with grafana HEALTHY and alertmanager ERROR by a failed image pull.
C9_Witness ==
    /\ last.op = "start_return"
    /\ IsResident(last.customer)
    /\ LET set == get_customer_status(last.customer)
       IN  /\ DOMAIN set.containers = {GRAFANA, ALERTMANAGER}
           /\ set.containers[GRAFANA].state = HEALTHY
           /\ set.containers[ALERTMANAGER].state = ERROR
           /\ set.containers[ALERTMANAGER].error_message = "pull_failed"
           /\ ~all_healthy(set)

\* ------------------------------------------------------------------- C10

\* The transitions of the container state machine.
AllowedTransitions ==
    {<<NOT_FOUND, STARTING>>, <<STARTING, RUNNING>>, <<RUNNING, HEALTHY>>,
     <<RUNNING, UNHEALTHY>>, <<RUNNING, STOPPING>>, <<HEALTHY, STOPPING>>,
     <<UNHEALTHY, STOPPING>>, <<STOPPING, STOPPED>>}
        \cup {<<from, ERROR>> : from \in ContainerState}

\* C10 as stated: every state change made to a container status by
\* _start_container, _wait_for_healthy or _stop_container is one of the
\* transitions of the state machine.  Violated: _stop_container sets NOT_FOUND
\* on a STOPPING status whose container is gone (line 440).
C10_AsStated ==
    last.trans \subseteq AllowedTransitions

\* ------------------------------------------------------------------- C11

\* C11 as stated: when stop_customer_containers stops a status whose
\* container no longer exists in the daemon, the status ends in STOPPED, and
\* any other failure of the stop ends in ERROR: no status leaves STOPPING for
\* a state other than those two.  Violated: the NotFound handler of
\* _stop_container sets NOT_FOUND (lines 439-440).
C11_AsStated ==
    [][\A c \in DOMAIN scope.requests :
          (/\ last'.op = "stop" /\ last'.customer = c
           /\ IsResident(c) /\ ~IsResident(c)'
           /\ \E t \in DOMAIN get_customer_status(c).containers :
                 LET status == get_customer_status(c).containers[t]
                 IN  /\ status.container_id # NoId
                     /\ NameOfId(containers, status.container_id) = NoName)
          => \A tr \in last'.trans :
                tr[1] = STOPPING => tr[2] \in {STOPPED, ERROR}]_vars

\* ------------------------------------------------------------------- C12

\* The statuses of a customer's set that are in one of the given states.
StatusesIn(set, states) ==
    {set.containers[t] : t \in {x \in DOMAIN set.containers :
                                   set.containers[x].state \in states}}

\* C12: ERROR and STOPPED are terminal.  No step makes a state change out of
\* ERROR or STOPPED; a status in one of them keeps every field for as long as
\* its set is in the pool or in the hands of a call (it goes away only when
\* the set is stopped, evicted, or replaced by the set of a later start); and
\* the statuses a later start builds all begin in STARTING.
C12_TerminalStates ==
    [][/\ \A tr \in last'.trans : tr[1] \notin {ERROR, STOPPED}
       /\ last'.op = "start_tasks" /\ last' # last
            => \A tr \in last'.trans : tr[1] = STARTING
       /\ \A c \in DOMAIN scope.requests :
            (IsResident(c) /\ IsResident(c)')
            => \/ StatusesIn(get_customer_status(c), {ERROR, STOPPED})
                    \subseteq StatusesIn(get_customer_status(c)', {ERROR, STOPPED})
               \/ last'.op = "start_return" /\ last'.customer = c
       /\ \A call \in BagToSet(calls) :
            \/ Returns(call)
            \/ \E next \in BagToSet(calls') :
                  /\ next.customer_name = call.customer_name
                  /\ StatusesIn(call, {ERROR, STOPPED})
                        \subseteq StatusesIn(next, {ERROR, STOPPED})]_vars

\* A resident set whose sidecars were all in ERROR was stopped, and the stop
\* made no state change.
C12_Witness ==
    /\ last.op = "stop"
    /\ last.trans = {}
    /\ ~IsResident(last.customer)

\* ------------------------------------------------------------------- C13

\* The states start_customer_containers may leave a sidecar in when it waited
\* for health.
StartOutcomeStates == {HEALTHY, UNHEALTHY, ERROR}

\* C13 as stated: when a call made with wait_for_healthy = True returns and
\* max_warm >= 1, every sidecar of the returned set is HEALTHY, UNHEALTHY or
\* ERROR.  The set is inserted only with every sidecar at such a state (that
\* part holds), but the call's own _enforce_lru_limit may evict the customer
\* it has just inserted in place (C3) and stop the sidecars of the very set it
\* returns, which leaves them STOPPED: the return must not evict the customer
\* and remove from the daemon a container the returned set tracks.
C13_AsStated ==
    [][\A call \in BagToSet(calls) :
          (Returns(call) /\ call.wait /\ max_warm >= 1)
          => LET c == call.customer_name
             IN  /\ \A t \in DOMAIN call.containers :
                       call.containers[t].state \in StartOutcomeStates
                 /\ ~(/\ ~IsResident(c)'
                       /\ \E t \in DOMAIN call.containers :
                            LET id == call.containers[t].container_id
                            IN  /\ id # NoId
                                /\ NameOfId(containers, id) # NoName
                                /\ NameOfId(containers', id) = NoName)]_vars

\* ------------------------------------------------------------------- C14

\* The healthy class as the health prober's contract words it: any successful
\* status, or method-not-allowed.
HealthyClass == {resp \in ProbeResponses : resp \in 200..299 \/ resp = 405}

\* C14 as stated: a wait on a RUNNING status that has ended is HEALTHY exactly
\* when one of its probes observed a healthy-class response, and is otherwise
\* UNHEALTHY with the timeout message; it never ends in ERROR.  Violated: a
\* successful status other than 200 (204 here) does not end the wait (C33).
C14_AsStated ==
    (prober.pc = "done" /\ prober.state # ERROR)
    => /\ prober.state = HEALTHY <=> prober.seen \cap HealthyClass # {}
       /\ prober.state # HEALTHY
            => prober.state = UNHEALTHY /\ prober.error_message = "health_timeout"

\* ------------------------------------------------------------------- C15

\* C15 as stated: a wait whose probes never succeed sets UNHEALTHY no earlier
\* than timeout seconds after it began and no later than timeout plus the
\* request timeout of one probe.  Violated: the sleep of line 413 follows the
\* last probe before the loop condition is read again, and adds to the bound.
C15_AsStated ==
    (prober.pc = "done" /\ prober.state = UNHEALTHY)
    => LET elapsed == prober.now - prober.start_time
       IN  /\ elapsed >= prober.timeout
           /\ elapsed <= prober.timeout + ProbeTimeout

\* ------------------------------------------------------------------- C16

\* C16: a health timeout leaves the container running.  The step in which a
\* wait times out changes nothing in the daemon, the ledger or the pool, and
\* changes of the status only its state (to UNHEALTHY) and its message: the
\* container id and the port stay.  When the call then returns, the customer
\* is inserted with that sidecar as it was left, UNHEALTHY, unless the
\* capacity limit evicts the customer in the same return.
C16_TimeoutLeavesRunning ==
    [][/\ (calls' # calls /\ last'.op = "health_timeout")
          => /\ containers' = containers
             /\ port_allocations' = port_allocations
             /\ customers' = customers
             /\ \E call \in BagToSet(calls) :
                  \E t \in DOMAIN call.containers :
                    /\ call.containers[t].state = RUNNING
                    /\ calls' = Replace(call,
                           [call EXCEPT
                               !.containers[t].state = UNHEALTHY,
                               !.containers[t].error_message = "health_timeout"])
       /\ \A call \in BagToSet(calls) :
            Returns(call)
            => \A t \in DOMAIN call.containers :
                 call.containers[t].state = UNHEALTHY
                 => \/ /\ IsResident(call.customer_name)'
                       /\ get_customer_status(call.customer_name)'.containers[t]
                            = call.containers[t]
                       /\ call.containers[t].container_id # NoId
                    \/ /\ ~IsResident(call.customer_name)'
                       /\ Len(customers') <= max_warm]_vars

\* A call has returned and its customer is resident with a sidecar that timed
\* out: UNHEALTHY, its container still running in the daemon under the id the
\* status holds, its port still in the ledger.
C16_Witness ==
    /\ last.op = "start_return"
    /\ IsResident(last.customer)
    /\ \E t \in DOMAIN get_customer_status(last.customer).containers :
         LET status == get_customer_status(last.customer).containers[t]
         IN  /\ status.state = UNHEALTHY
             /\ status.error_message = "health_timeout"
             /\ NameOf(status) \in DOMAIN containers
             /\ containers[NameOf(status)].id = status.container_id
             /\ containers[NameOf(status)].status = "running"
             /\ NameOf(status) \in DOMAIN port_allocations
             /\ port_allocations[NameOf(status)] = status.port

\* ------------------------------------------------------------------- C17

Orphans ==
    {n \in DOMAIN containers :
        /\ containers[n].managed
        /\ ~\E c \in DOMAIN scope.requests :
              \E t \in DOMAIN get_customer_status(c).containers :
                get_customer_status(c).containers[t].container_id
                    = containers[n].id}

\* C18: a cleanup pass that meets no failure removes exactly the containers
\* that carry the managed label and whose id no resident set tracks, and
\* returns how many they were; every other container (tracked, or without
\* the label) stays as it is, and so do the pool and the ledger.  A pass that
\* fails removes some of those containers and nothing else.
C18_OrphanCleanup ==
    [][/\ (vars' # vars /\ last'.op = "cleanup")
          => /\ DOMAIN containers' = DOMAIN containers \ Orphans
             /\ orphans_removed' = Cardinality(Orphans)
       /\ (vars' # vars /\ last'.op \in {"cleanup", "cleanup_failed"})
          => /\ DOMAIN containers \ DOMAIN containers' \subseteq Orphans
             /\ \A n \in DOMAIN containers' :
                  n \in DOMAIN containers /\ containers'[n] = containers[n]
             /\ UNCHANGED <<customers, port_allocations, calls, max_warm>>]_vars

\* A pass removed an orphan and returned 1 while a resident set's container,
\* and the container without the label, are still in the daemon.
C18_Witness ==
    /\ last.op = "cleanup"
    /\ orphans_removed = 1
    /\ ForeignName \in DOMAIN containers
    /\ \E c \in DOMAIN scope.requests :
         \E t \in DOMAIN get_customer_status(c).containers :
           LET status == get_customer_status(c).containers[t]
           IN  /\ NameOf(status) \in DOMAIN containers
               /\ containers[NameOf(status)].id = status.container_id

\* ------------------------------------------------------------------- C19

\* C19 as stated: a cleanup pass in which the listing or a removal fails
\* returns 0.  Violated: where a removal fails after others succeeded, the
\* count of those is returned (line 586 returns "removed" as it stands).
C19_AsStated == last.op = "cleanup_failed" => orphans_removed = 0

\* ------------------------------------------------------------------- C20

\* C20 as stated: customers are isolated.  No container id is held by the
\* resident sets of two different customers, and the container a resident
\* status holds was created for that status's own customer (the daemon keeps
\* the customer a container was run for in the label sm3.customer).
\* Violated: two customer names with the same container_name (C21) share one
\* container, the second start adopting what the first created.
C20_AsStated ==
    /\ \A c1 \in DOMAIN scope.requests, c2 \in DOMAIN scope.requests :
         c1 # c2
         => managed_ids(<<get_customer_status(c1)>>)
              \cap managed_ids(<<get_customer_status(c2)>>) = {}
    /\ \A c \in DOMAIN scope.requests :
         \A id \in managed_ids(<<get_customer_status(c)>>) :
           NameOfId(containers, id) # NoName
           => containers[NameOfId(containers, id)].customer = c

\* ------------------------------------------------------------------- C21

\* The identities (customer, sidecar type) the manager holds a config or a
\* status for, in the pool or in a call.
Identities ==
    UNION {{<<customers[i].customer_name, t>> : t \in DOMAIN customers[i].containers} :
              i \in 1..Len(customers)}
    \cup UNION {{<<call.customer_name, call.configs[k].mcp_type>> :
                    k \in 1..Len(call.configs)} : call \in BagToSet(calls)}

\* C21 as stated: two different identities never have the same container
\* name.  Violated: container_name lower-cases the customer name, turns a
\* space into a hyphen and drops square brackets, so "A", "a" and "[A]" (and
\* "A B" and "a-b") are one name.
C21_AsStated ==
    \A i1 \in Identities, i2 \in Identities :
       i1 # i2 => container_name(i1[1], i1[2]) # container_name(i2[1], i2[2])

\* ------------------------------------------------------------------- C22

\* C22: _allocate_port is idempotent.  In every reachable ledger, the call
\* for a name that holds a port returns that port and the ledger as it is;
\* a name keeps its port from step to step for as long as it is in the
\* ledger, whatever is allocated or released for other names; and the config
\* a new call builds for a name that holds a port carries that port.
C22_AllocateIdempotent ==
    /\ [](\A n \in DOMAIN port_allocations :
            \A t \in MCPType :
              allocate_port(port_allocations, t, n)
                = [raised |-> FALSE, port |-> port_allocations[n],
                   allocations |-> port_allocations])
    /\ [][/\ \A n \in DOMAIN port_allocations \cap DOMAIN port_allocations' :
              port_allocations'[n] = port_allocations[n]
          /\ \A call \in BagToSet(calls') :
              (call.pc = "start" /\ CopiesIn(call, calls') > CopiesIn(call, calls))
              => \A k \in 1..Len(call.configs) :
                   LET n == container_name(call.customer_name,
                                           call.configs[k].mcp_type)
                   IN  n \in DOMAIN port_allocations
                       => /\ call.configs[k].port = port_allocations[n]
                          /\ port_allocations'[n] = port_allocations[n]]_vars

\* A call has just begun for a resident customer, and its config carries the
\* port the resident status of the same sidecar holds, while the other
\* customer holds a port of its own.
C22_Witness ==
    /\ last.op = "start_begin"
    /\ IsResident(last.customer)
    /\ Cardinality(DOMAIN port_allocations) >= 2
    /\ \E call \in BagToSet(calls) :
         /\ call.pc = "start"
         /\ call.customer_name = last.customer
         /\ \E k \in 1..Len(call.configs) :
              LET t == call.configs[k].mcp_type
                  set == get_customer_status(last.customer)
              IN  /\ t \in DOMAIN set.containers
                  /\ set.containers[t].port = call.configs[k].port

\* ------------------------------------------------------------------- C23

\* The ports of the window of a sidecar type (the program's window is 100
\* wide, the model's scope.port_window).
Window(mcpType) == BasePort(mcpType)..(BasePort(mcpType) + scope.port_window - 1)

\* C23: _allocate_port binds the first free port.  A name that enters the
\* ledger gets a port of its type's window that no name held, every lower
\* port of the window being held, and no other entry changes; a call that
\* raises found every port of the window held, and leaves the ledger as it
\* was.  (Stated where each call allocates for one sidecar.)
C23_FirstFreePort ==
    /\ [][/\ \A n \in DOMAIN port_allocations' \ DOMAIN port_allocations :
              /\ port_allocations'[n] \in Window(n[2])
              /\ port_allocations'[n] \notin Values(port_allocations)
              /\ \A p \in Window(n[2]) :
                    p < port_allocations'[n] => p \in Values(port_allocations)
              /\ \A m \in DOMAIN port_allocations :
                    m \in DOMAIN port_allocations'
                    /\ port_allocations'[m] = port_allocations[m]
          /\ (last'.op = "start_raise" /\ last' # last)
              => port_allocations' = port_allocations]_vars
    /\ [](last.op = "start_raise"
           => /\ Window(GRAFANA) \subseteq Values(port_allocations)
              /\ container_name(last.customer, GRAFANA)
                    \notin DOMAIN port_allocations)

\* A start raised for the third customer while two names hold the two ports
\* of the window, the lower one bound first.
C23_Witness ==
    /\ last.op = "start_raise"
    /\ Cardinality(DOMAIN port_allocations) = 2
    /\ Values(port_allocations) = Window(GRAFANA)

\* ------------------------------------------------------------------- C24

\* C24: a released port is free for another name at once.  When a customer
\* leaves the pool and the stop of one of its containers succeeds (the
\* container is gone from the daemon), the container's name is out of the
\* ledger, and an allocation made in the resulting state for any other name
\* that holds no port succeeds with a port no higher than the released one:
\* the released port itself unless a lower port of the window is free too
\* (every port of the window below the one handed out is held).
C24_ReleaseAndReuse ==
    [][\A c \in DOMAIN scope.requests :
          (IsResident(c) /\ ~IsResident(c)')
          => \A t \in DOMAIN get_customer_status(c).containers :
               LET status == get_customer_status(c).containers[t]
               IN  (/\ status.container_id # NoId
                    /\ NameOfId(containers, status.container_id) # NoName
                    /\ NameOfId(containers', status.container_id) = NoName
                    /\ NameOf(status) \in DOMAIN port_allocations
                    /\ port_allocations[NameOf(status)] = status.port)
                   => /\ NameOf(status) \notin DOMAIN port_allocations'
                      /\ \A d \in DOMAIN scope.requests \ {c} :
                           container_name(d, t) \notin DOMAIN port_allocations'
                           => LET a == allocate_port(port_allocations', t,
                                                     container_name(d, t))
                              IN  /\ ~a.raised
                                  /\ a.port <= status.port
                                  /\ \A p \in Window(t) :
                                       p < a.port
                                       => p \in Values(port_allocations')]_vars

\* The spec's example on the model's two-port window: A was started and
\* stopped and holds no port any more, B holds the second port of the window,
\* and C, started after A's stop, is resident on the first.
C24_Witness ==
    /\ container_name(<<"A">>, GRAFANA) \in DOMAIN created
    /\ ~IsResident(<<"A">>)
    /\ DOMAIN port_allocations =
           {container_name(<<"B">>, GRAFANA), container_name(<<"C">>, GRAFANA)}
    /\ port_allocations[container_name(<<"B">>, GRAFANA)] = GrafanaBasePort + 1
    /\ port_allocations[container_name(<<"C">>, GRAFANA)] = GrafanaBasePort
    /\ IsResident(<<"B">>)
    /\ IsResident(<<"C">>)

\* ------------------------------------------------------------------- C25

\* C25: in every reachable state no two statuses of one resident set have
\* the same host port (nor have two configs or statuses of one call), also
\* where the sidecar types draw their ports from one shared window.
C25_PortsDistinctInSet ==
    /\ \A i \in 1..Len(customers) :
         \A t1 \in DOMAIN customers[i].containers :
           \A t2 \in DOMAIN customers[i].containers :
             t1 # t2 => customers[i].containers[t1].port
                          # customers[i].containers[t2].port
    /\ \A call \in BagToSet(calls) :
         /\ \A k1 \in 1..Len(call.configs) :
              \A k2 \in 1..Len(call.configs) :
                k1 # k2 => call.configs[k1].port # call.configs[k2].port
         /\ \A t1 \in DOMAIN call.containers :
              \A t2 \in DOMAIN call.containers :
                t1 # t2 => call.containers[t1].port # call.containers[t2].port

\* A resident set holds a grafana and an alertmanager sidecar on the two
\* neighbouring ports of the shared window.
C25_Witness ==
    \E i \in 1..Len(customers) :
       /\ {GRAFANA, ALERTMANAGER} \subseteq DOMAIN customers[i].containers
       /\ customers[i].containers[GRAFANA].port = GrafanaBasePort
       /\ customers[i].containers[ALERTMANAGER].port = GrafanaBasePort + 1

\* ------------------------------------------------------------------- C26

\* The calls in flight for a customer.
CallsFor(c) == {call \in BagToSet(calls) : call.customer_name = c}

\* C26 (second half): once the start calls for a customer have returned, the
\* resident set tracks the customer's container of each of its sidecar
\* types: where the daemon runs a container under the name of a sidecar of
\* the set, the status of that sidecar holds its id.  Stated for the sets
\* written by a call that waited for health (a sidecar is HEALTHY or
\* UNHEALTHY), the calls another call can overtake.
C26_AsStated ==
    \A i \in 1..Len(customers) :
       LET c == customers[i].customer_name
           set == customers[i].containers
       IN  (/\ CallsFor(c) = {}
            /\ \E w \in DOMAIN set : set[w].state \in {HEALTHY, UNHEALTHY})
           => \A t \in DOMAIN set :
                LET name == container_name(c, t)
                IN  (/\ name \in DOMAIN containers
                     /\ containers[name].status = "running"
                     /\ containers[name].customer = c)
                    => set[t].container_id = containers[name].id

\* ------------------------------------------------------------------- C27

\* The calls suspended in the health wait of a sidecar.
WaitingForHealth ==
    {call \in BagToSet(calls) :
        /\ call.pc = "health"
        /\ \E t \in DOMAIN call.containers : call.containers[t].state = RUNNING}

\* C27: while a call for one customer is suspended in its health wait, a
\* call for any other customer is never held up by it: it can begin whenever
\* the call budget and the ports allow it, and a call that has begun can take
\* its next step (run its start tasks, have a probe answered, insert and
\* return).
C27_StartsIndependent ==
    \A waiting \in WaitingForHealth :
      \A b \in DOMAIN scope.requests \ {waiting.customer_name} :
        /\ \A req \in scope.requests[b], wait \in scope.waits :
             (/\ ~TakesFastPath(b)
              /\ BagCardinality(calls) < scope.max_in_flight
              /\ begun < scope.max_starts
              /\ ~build_configs(b, req, port_allocations, <<>>).raised)
             => ENABLED StartBegin(b, req, wait)
        /\ \A call \in CallsFor(b) :
             /\ call.pc = "start" => ENABLED RunStartTasks(call)
             /\ \A t \in DOMAIN call.containers :
                  (call.pc = "health" /\ call.containers[t].state = RUNNING)
                  => ENABLED Probe(call, t, 200)
             /\ (\/ call.pc = "insert"
                 \/ /\ call.pc = "health"
                    /\ \A t \in DOMAIN call.containers :
                         call.containers[t].state # RUNNING)
                => ENABLED FinishStart(call)

\* A call for B has just returned with B resident and its sidecar HEALTHY,
\* while the call for A is still suspended in its health wait.
C27_Witness ==
    /\ last.op = "start_return"
    /\ last.customer = <<"B">>
    /\ IsResident(<<"B">>)
    /\ \A t \in DOMAIN get_customer_status(<<"B">>).containers :
         get_customer_status(<<"B">>).containers[t].state = HEALTHY
    /\ \E waiting \in WaitingForHealth : waiting.customer_name = <<"A">>

\* ------------------------------------------------------------------- C28

\* A step in which a query of the given name returned.
Answered(op) == answer' # answer /\ answer'.op = op

\* C28: get_container_urls returns, for a resident customer, one entry for
\* each sidecar of the set whose state is HEALTHY, holding that sidecar's
\* url, and no entry for a sidecar in any other state; for a customer that is
\* not resident it returns the empty dict.
C28_UrlsOfHealthyOnly ==
    [][Answered("get_container_urls") =>
         LET c == answer'.customer
             set == get_customer_status(c).containers
         IN  IF IsResident(c)
             THEN /\ DOMAIN answer'.value
                       = {t \in DOMAIN set : set[t].state = HEALTHY}
                  /\ \A t \in DOMAIN answer'.value :
                       answer'.value[t] = url(t, set[t].port)
             ELSE answer'.value = EmptyDict]_vars

\* A is resident with a HEALTHY grafana sidecar and an alertmanager sidecar
\* in another state, and the latest get_container_urls("A") returned the
\* grafana url alone.
C28_Witness ==
    /\ answer.op = "get_container_urls"
    /\ answer.customer = <<"A">>
    /\ IsResident(<<"A">>)
    /\ LET set == get_customer_status(<<"A">>).containers
       IN  /\ DOMAIN set = {GRAFANA, ALERTMANAGER}
           /\ set[GRAFANA].state = HEALTHY
           /\ set[ALERTMANAGER].state \in {RUNNING, UNHEALTHY, ERROR}
           /\ DOMAIN answer.value = {GRAFANA}
           /\ answer.value[GRAFANA]
                = <<"http://localhost:", GrafanaBasePort, "/mcp">>

\* ------------------------------------------------------------------- C29

\* C29: a query (get_customer_status, get_active_customers,
\* get_container_urls) leaves the pool and its order, the ledger, the
\* daemon's containers, the calls in flight and every status as they were;
\* and having been the customer of the latest query does not keep the
\* least recently used customer from being evicted when another customer's
\* start returns over the limit.
C29_QueriesChangeNothing ==
    /\ [][answer' # answer =>
            UNCHANGED <<customers, recency, port_allocations, containers,
                        created, calls, max_warm, run_calls, last>>]_vars
    /\ [][(/\ last'.op = "start_return"
            /\ vars' # vars
            /\ customers # <<>>
            /\ answer.customer = customers[1].customer_name
            /\ last'.customer # customers[1].customer_name
            /\ Len(OdPop(customers, last'.customer)) + 1 > max_warm)
           => customers[1].customer_name \notin Residents(customers')]_vars

\* A was resident when get_customer_status("A") was answered, no query was
\* made since, and the return of B's start has just evicted A.
C29_Witness ==
    /\ answer.op = "get_customer_status"
    /\ answer.customer = <<"A">>
    /\ answer.value # NoCustomer
    /\ last.op = "start_return"
    /\ last.customer = <<"B">>
    /\ \E from \in ContainerState : <<from, STOPPING>> \in last.trans
    /\ ~IsResident(<<"A">>)
    /\ IsResident(<<"B">>)

\* ------------------------------------------------------------------- C30

\* C30: a stop_customer_containers call that changes anything is one for a
\* resident customer (for a customer that is not resident the pool, the
\* ledger and the daemon stay as they are); it removes that customer from
\* the pool and leaves the other customers, their sets and their order as
\* they were; a stop is issued for each container of the removed set; and
\* the ports and the containers of other customers are not touched.
C30_StopRemovesOneCustomer ==
    [][(last'.op = "stop" /\ vars' # vars) =>
         LET c == last'.customer
             set == get_customer_status(c).containers
             own == {container_name(c, t) : t \in MCPType}
         IN  /\ IsResident(c)
             /\ customers'
                  = SelectSeq(customers, LAMBDA item : item.customer_name # c)
             /\ \A t \in DOMAIN set :
                  set[t].container_id # NoId
                  => <<set[t].state, STOPPING>> \in last'.trans
             /\ \A n \in DOMAIN port_allocations \ own :
                  /\ n \in DOMAIN port_allocations'
                  /\ port_allocations'[n] = port_allocations[n]
             /\ \A n \in DOMAIN containers \ own :
                  /\ n \in DOMAIN containers'
                  /\ containers'[n] = containers[n]
             /\ UNCHANGED <<max_warm, calls>>]_vars

\* stop_customer_containers("A") has just stopped A's HEALTHY container and
\* removed A, and B is resident as before.
C30_Witness ==
    /\ last.op = "stop"
    /\ last.customer = <<"A">>
    /\ {<<HEALTHY, STOPPING>>, <<STOPPING, STOPPED>>} \subseteq last.trans
    /\ ~IsResident(<<"A">>)
    /\ IsResident(<<"B">>)

\* ------------------------------------------------------------------- C31

\* C31: a configure call, also one that lowers max_warm below the size of
\* the pool or changes the port ranges, leaves the pool and its order, the
\* ledger, the daemon's containers and the calls in flight as they were; the
\* new policy shows in the starts that follow: a port bound after the call
\* lies in the window configured then, and the pool is cut to the limit by
\* the return of a start and by nothing else.
C31_ConfigureChangesPolicyOnly ==
    /\ [][(max_warm' # max_warm \/ scope' # scope)
           => UNCHANGED <<customers, recency, port_allocations, containers,
                          created, calls, run_calls>>]_vars
    /\ [][\A n \in DOMAIN port_allocations' \ DOMAIN port_allocations :
             port_allocations'[n] \in Window(n[2])]_vars
    /\ [][BagCardinality(calls') < BagCardinality(calls)
           => Len(customers') <= max_warm]_vars

\* max_warm was lowered to 1 with two customers resident, both still in the
\* pool with their containers running, and the ranges were changed while the
\* ledger keeps an alertmanager port of the old window.
C31_Witness ==
    /\ max_warm = 1
    /\ Len(customers) = 2
    /\ \A i \in 1..Len(customers) :
         \A t \in DOMAIN customers[i].containers :
            /\ customers[i].containers[t].state = HEALTHY
            /\ NameOf(customers[i].containers[t]) \in DOMAIN containers
    /\ scope.port_ranges = SharedPortRanges
    /\ AlertmanagerBasePort \in Values(port_allocations)

\* ------------------------------------------------------------------- C32

\* The positions of a Docker call in the calls of the followed start.
CallsOf(docker, what) == {j \in 1..Len(docker) : docker[j] = what}

\* C32: a _start_container call that finds a running container of its name
\* returns RUNNING with that container's id, leaves the daemon as it is and
\* makes no network, image or run call; one that finds a container that is
\* not running removes it before it runs the new one, and the old container
\* is gone afterwards; and no call runs a container more than once.
C32_AdoptOrReplace ==
    [][(started' # started \/ containers' # containers \/ created' # created) =>
         LET name == started'.name
             st == started'.status
             docker == started'.docker
         IN  /\ (name \in DOMAIN containers /\ containers[name].status = "running")
                => /\ st.state = RUNNING
                   /\ st.container_id = containers[name].id
                   /\ containers' = containers
                   /\ \A what \in {"remove", "ensure_network", "images.get",
                                    "images.pull", "containers.run"} :
                        CallsOf(docker, what) = {}
             /\ (name \in DOMAIN containers /\ containers[name].status # "running")
                => /\ CallsOf(docker, "remove") # {}
                   /\ \A i \in CallsOf(docker, "remove") :
                        \A j \in CallsOf(docker, "containers.run") : i < j
                   /\ \A n \in DOMAIN containers' :
                        containers'[n].id # containers[name].id
             /\ Cardinality(CallsOf(docker, "containers.run")) <= 1]_vars

\* The followed start found A's grafana container of an earlier run running
\* and adopted it: the status is RUNNING with the id of that container, and
\* containers.get was the only Docker call.
C32_Witness ==
    /\ started.name = container_name(<<"A">>, GRAFANA)
    /\ started.docker = <<"containers.get">>
    /\ started.status.state = RUNNING
    /\ started.name \in DOMAIN containers
    /\ containers[started.name].status = "running"
    /\ started.status.container_id = Append(started.name, 1)
    /\ containers[started.name].id = started.status.container_id

\* ------------------------------------------------------------------- C33

\* C33 as stated: a probe response counts as healthy if and only if its
\* status is a successful one (200 to 299) or 405: at every point of a wait
\* the status is HEALTHY exactly when a response of that class was observed.
\* Violated: line 406 accepts 200 and 405 only, and a 204 leaves the status
\* RUNNING and the loop going.
C33_AsStated ==
    prober.pc # "idle"
    => (prober.state = HEALTHY <=> prober.seen \cap HealthyClass # {})

\* ------------------------------------------------------------------- C34

\* C34: within a start call the health wait is entered only with
\* wait_for_healthy true; a status that left the start phase in ERROR is
\* never probed (it keeps ERROR, the message of its start and no id); only
\* a status that was started ends HEALTHY or UNHEALTHY, and only in a call
\* that waits; a call that does not wait holds RUNNING and ERROR statuses
\* only.  A call that waits does not return while one of its statuses is
\* RUNNING, and the set a call inserts is the set it holds when it returns.
C34_ProbingFollowsStart ==
    /\ [](\A call \in BagToSet(calls) :
            /\ call.pc = "health" => call.wait
            /\ \A t \in DOMAIN call.containers :
                 LET st == call.containers[t]
                 IN  /\ st.state \in {HEALTHY, UNHEALTHY}
                        => call.wait /\ st.container_id # NoId
                     /\ st.state = ERROR
                        => /\ st.error_message \in StartOutcomes
                           /\ st.container_id = NoId
                     /\ ~call.wait => st.state \in {RUNNING, ERROR})
    /\ [][\A call \in BagToSet(calls) :
             Returns(call)
             => /\ call.wait
                   => \A t \in DOMAIN call.containers :
                        call.containers[t].state # RUNNING
                /\ IsResident(call.customer_name)'
                   => get_customer_status(call.customer_name)'.containers
                        = call.containers]_vars

\* A's call waited for health and has returned: the grafana sidecar, whose
\* start failed, is resident in ERROR with the message of the start, and the
\* alertmanager sidecar, which was started, is HEALTHY.
C34_Witness ==
    /\ last.op = "start_return"
    /\ last.customer = <<"A">>
    /\ IsResident(<<"A">>)
    /\ LET set == get_customer_status(<<"A">>).containers
       IN  /\ DOMAIN set = {GRAFANA, ALERTMANAGER}
           /\ set[GRAFANA].state = ERROR
           /\ set[GRAFANA].error_message = "pull_failed"
           /\ set[ALERTMANAGER].state = HEALTHY

\* ------------------------------------------------------------------- C35

\* C35 as stated: a cleanup_orphaned_containers call made while a start call
\* is in its health wait leaves the containers that call has started in the
\* daemon.  Violated: the ids of a call in flight are in no resident set
\* yet, and the containers carry the label the cleanup lists by.
C35_AsStated ==
    [][(last'.op \in {"cleanup", "cleanup_failed"} /\ vars' # vars)
       => \A call \in WaitingForHealth :
            \A t \in DOMAIN call.containers :
               LET id == call.containers[t].container_id
               IN  (id # NoId /\ NameOfId(containers, id) # NoName)
                   => NameOfId(containers', id) # NoName]_vars

\* ------------------------------------------------------------------- C36

\* C36 as stated: in every reachable state each status of a resident set has
\* its port in the ledger under its own container name.  Violated: a set
\* inserted by a call that was in flight while its customer was stopped
\* holds ports the stop has released.
C36_AsStated ==
    \A i \in 1..Len(customers) :
       \A t \in DOMAIN customers[i].containers :
          LET st == customers[i].containers[t]
          IN  /\ NameOf(st) \in DOMAIN port_allocations
              /\ port_allocations[NameOf(st)] = st.port

\* ------------------------------------------------------------------- C37

\* C37 as stated: a container that a stop or an eviction has removed is
\* tracked as RUNNING or HEALTHY by no resident set afterwards: every id a
\* resident set holds in one of these states is the id of a container in the
\* daemon.  Violated: a call in flight that adopted the container inserts
\* its set after the stop.
C37_AsStated ==
    \A i \in 1..Len(customers) :
       \A t \in DOMAIN customers[i].containers :
          LET st == customers[i].containers[t]
          IN  (st.state \in {RUNNING, HEALTHY} /\ st.container_id # NoId)
              => NameOfId(containers, st.container_id) # NoName

\* ------------------------------------------------------------------- C38

\* C38 as stated: with max_warm >= 1, when a start call returns after its
\* full path its customer is resident, also when the customer was resident
\* before and was overwritten in place, and when configure lowered max_warm
\* while the call was suspended.  Violated: the overwrite keeps the
\* customer's old place in the order (C3), and the eviction loop of the same
\* call pops it as the least recently used.  Stated for the calls that
\* return from their health wait, the suspension other calls fall into.
C38_AsStated ==
    [][\A call \in BagToSet(calls) :
          (Returns(call) /\ call.pc = "health" /\ max_warm >= 1)
          => IsResident(call.customer_name)']_vars

\* ------------------------------------------------------------------- C39

\* C39 as stated: when a start call returns and replaces the set of a
\* customer that was resident, every container of the old set that has an id
\* is tracked by the new set, or is gone from the daemon with its port
\* released.  Violated: a sidecar type the new request does not list stays
\* in the daemon and in the ledger, and no set tracks it.
C39_AsStated ==
    [][\A call \in BagToSet(calls) :
          LET c == call.customer_name
              old == get_customer_status(c).containers
              new == get_customer_status(c)'.containers
          IN  (Returns(call) /\ IsResident(c) /\ IsResident(c)')
              => \A t \in DOMAIN old :
                   old[t].container_id # NoId
                   => \/ \E u \in DOMAIN new :
                           new[u].container_id = old[t].container_id
                      \/ /\ NameOfId(containers', old[t].container_id) = NoName
                         /\ NameOf(old[t]) \notin DOMAIN port_allocations']_vars

\* ------------------------------------------------------------------- C40

\* C40 as stated: a start call that raises while building its configs leaves
\* the pool, its LRU order and the port ledger as it found them.  Violated:
\* the ports allocated for the sidecars built before the raise stay in the
\* ledger, and a resident customer has been moved to the end of the pool.
C40_AsStated ==
    [][(last'.op = "start_raise" /\ vars' # vars)
          => UNCHANGED <<customers, port_allocations>>]_vars

====
